---- MODULE Spec2Model ----
(***************************************************************************)
(* A model of the primitives of lockfree-userspace-rcu:                    *)
(*                                                                         *)
(*   - Local3StateExchange<T> (simple_rcu/local_3state_exchange.h) and     *)
(*     TwoThreadConcurrent<C, D> (simple_rcu/two_thread_concurrent.h),     *)
(*     which runs on top of it, under the specification SpecExchange;      *)
(*   - UniDiChannel<M, MOp> (simple_rcu/bi_di_channel.h), a                *)
(*     TwoThreadConcurrent whose right side resets, under SpecChannel;     *)
(*   - Local3StateRcu<T> (simple_rcu/local_3state_rcu.h), under the        *)
(*     specification SpecRcu;                                              *)
(*   - LocalLockFreeMetric<C, D> (simple_rcu/lock_free_metric.h) with one  *)
(*     updating and one collecting thread, under SpecMetric;               *)
(*   - LockFreeMetric<C, D> (simple_rcu/lock_free_metric.h) with several   *)
(*     updating threads that may terminate, under SpecFanIn;               *)
(*   - refptr::Refcount (reference_counted.h), under SpecRefcount;         *)
(*   - CopyRcu<T> (simple_rcu/copy_rcu.h) with two Views and two threads   *)
(*     calling Update and UpdateIf, under SpecCopyRcu;                     *)
(*   - ThreadLocalDelayed<L> and ThreadLocalWeak<L>                        *)
(*     (simple_rcu/thread_local.h), under SpecThreadLocal;                 *)
(*   - ReverseRcu<T> (simple_rcu/reverse_rcu.h), under SpecReverseRcu.     *)
(*                                                                         *)
(* Every atomic operation on a shared word is a step of its own, and so is *)
(* every group of accesses to a cell between two atomic operations, so     *)
(* that TLC explores all interleavings of the two threads.                 *)
(***************************************************************************)
EXTENDS Integers, Sequences, FiniteSets, TLC

\* ------------------------------------------------------------------------
\* Bounds of the model.

\* Update calls each side of a TwoThreadConcurrent may make.
MaxUpdates == 3
\* Values the updater of a Local3StateRcu may write into Update().
MaxWrites == 2
\* Publications (ForceUpdate, successful TryUpdate) of a Local3StateRcu.
MaxPublications == 3
\* Update calls on a LocalLockFreeMetric.
MaxMetricUpdates == 5
\* Update calls of all threads together on LockFreeMetric objects.
MaxThreadUpdates == 2
\* Inc calls on a Refcount.
MaxIncs == 3
\* Calls of Update and UpdateIf that install a value in a CopyRcu.
MaxCopyUpdates == 2
\* Snapshots of one View alive at a time.
MaxDepth == 2
\* Per-thread instances a ThreadLocalDelayed or ThreadLocalWeak creates.
MaxInstances == 3
\* Values written through the Snapshots of a ReverseRcu.
MaxRcuWrites == 2
\* Snapshots of one Local of a ReverseRcu alive at a time.
MaxSnapshots == 1

\* ------------------------------------------------------------------------
\* Local3StateExchange: constants and bit operations on the state word.

kIndexMask == 3
kRightMask == 4
kExchangedMask == 8

\* The template parameter `bool Right` of Side<Right>.
Left == FALSE
Right == TRUE
Sides == {Left, Right}
Other(s) == ~s

Cells == {0, 1, 2}

\* x & mask, for the three masks above; x is a two's complement integer
\* (the constructor stores -1, all bits set, as the Right side's `last`).
MaskAnd(x, mask) ==
  IF mask = kIndexMask THEN x % 4 ELSE ((x \div mask) % 2) * mask

\* (x & mask) != 0
MaskTest(x, mask) == MaskAnd(x, mask) # 0

\* x | mask for a one-bit mask.
MaskOr(x, mask) == IF MaskTest(x, mask) THEN x ELSE x + mask

\* ------------------------------------------------------------------------
\* TwoThreadConcurrent: the payload. C is a sequence of the diffs applied
\* (the tests' BackCollection<std::deque<int>>), D an optional diff, whose
\* empty value is NoOp.

NoOp == 0

\* The class on top of the Local3StateExchange: a UniDiChannel, or a plain
\* TwoThreadConcurrent. It is fixed at construction.
VARIABLE uniDi

\* A moved-from MOp that its move has emptied: += of it adds nothing.
EmptyOp == -1

\* U::Apply(target, diff): BackCollection::operator+=. In a UniDiChannel
\* D is std::variant<MonoState, MOp>, NoOp is MonoState, and Merge::Apply is
\* target += op for an MOp, target = M{} for MonoState.
Apply(target, d) ==
  IF d = NoOp THEN (IF uniDi THEN <<>> ELSE target)
  ELSE IF d = EmptyOp THEN target
  ELSE Append(target, d)

\* Slice(initial): collected_(initial), last_(NoOp).
Slice(initial) == [collected_ |-> initial, last_ |-> NoOp]

\* Slice::Append(diff): applies the pending last_ and stores diff as last_.
SliceAppend(slice, d) ==
  [collected_ |-> Apply(slice.collected_, slice.last_), last_ |-> d]

\* The value of std::optional<Slice> without a value.
NullOpt == [has_value |-> FALSE]
Some(slice) == [has_value |-> TRUE, value |-> slice]

VARIABLES
  \* --- Local3StateExchange<Slice> ---
  passing_,      \* the atomic state word
  context_,      \* per side: [index, last]
  values_,       \* the three cells, each a Slice
  \* --- what a moved-from C and D hold (a property of the payload types) ---
  moveEmptiesC,
  moveEmptiesD,
  \* --- the two threads: position and locals of Update / Pass ---
  pc,
  diff,
  prev_copy,
  called_might_double_exchange,
  received,
  new_index,
  exchanged,
  next,          \* the PassResult: [ref, exchanged, past_exchanged]
  failed,        \* "none", or the check that aborted the process
  \* --- history variables, read by the properties only ---
  holder,        \* per cell: the side that received it last, or "mid"
  handed,        \* the contents of the cell in flight when it was handed over
  raced,         \* a side accessed a cell it did not hold
  updates,       \* per side: Update calls started
  sent,          \* the diffs other than NoOp of all Update calls so far
  submitted,     \* the same in call order, kept while no two calls overlapped
  before,        \* per side: [sent, submitted] when its current/last Update started
  alone,         \* per side: the other side was idle during all of that Update
  overlap,       \* some Update started while the other side was inside one
  ret,           \* per side: what its last Update / ObserveLast returned
  lastUpdate,    \* per side: the diff of its last Update that returned, and
                 \* the accumulator that Update returned
  wroteSince,    \* per side: the other side wrote passing_ since this side did
  wroteAtCas,    \* per side: wroteSince at its last compare-exchange
  cbCell,        \* per side: the cell its callback was last invoked on, or -1
  given,         \* per side: the cell it handed over in this Pass, or -1
  moved,         \* per cell: the members of its Slice that a callback
                 \* moved out and nobody has assigned since
  passed,        \* per side: the cell it handed over in the Pass that is
                 \* running (now) and in its Pass before (before), each with
                 \* the contents the cell had when it was handed over
  delivered,     \* UniDiChannel: the results of the UpdateRight calls
                 \* that returned, one after the other
  exchangers     \* per side S: the sides whose Pass used the exchange to
                 \* write passing_, among S's latest Pass and the opposite
                 \* side's Passes after it

exchVars == <<passing_, context_, values_, moveEmptiesC, moveEmptiesD, uniDi, pc, diff,
              prev_copy, called_might_double_exchange, received, new_index,
              exchanged, next, failed, holder, handed, raced, updates,
              sent, submitted, before, alone, overlap, ret, lastUpdate,
              wroteSince, wroteAtCas, cbCell, given, moved,
              exchangers, passed, delivered>>

\* ------------------------------------------------------------------------
\* Local3StateRcu<T>.

kNullIndex == -1

VARIABLES
  next_read_index_,     \* the atomic index, or kNullIndex
  read_,                \* [index], accessed by the Reader only
  update_,              \* [index, next_index], accessed by the Updater only
  rcu_values_,          \* the three instances of T
  \* --- the two threads: position and locals ---
  rpc,                  \* "idle", or inside "TryRead" after its exchange
  next_read_index,      \* TryRead's local
  upc,                  \* "idle", or inside "TryUpdate" / "ForceUpdate"
  old_next_read_index,  \* the Updater's local
  reclaimed,            \* the pointer ReclaimByUpdate returned, while valid
  \* --- history variables, read by the properties only ---
  writes,               \* values the Updater stored in Update() so far
  stable,               \* [cell, value]: Read() after the last successful
                        \* TryRead (or construction) and the Reader's writes
  lastTryRead,          \* what the last TryRead returned, "none" before
  publications,         \* stores of an index into next_read_index_ so far
  published,            \* [cell, value] of the last publication
  untaken,              \* the last publication has not been taken by the
                        \* Reader's exchange (the in-flight cell is U->R)
  taken,                \* [cell, value, seq]: the publication the Reader's
                        \* last exchange took; seq 0 is the constructor's
  returnedPub,          \* the publication of the last returned ForceUpdate
  owed,                 \* returnedPub when the last TryRead was called
  mustAdvance,          \* a ForceUpdate returned between the previous
                        \* TryRead call and the last one
  discarded,            \* publications a ForceUpdate took back untaken
  released,             \* [cell, value] the Reader's last exchange gave up
  incoming,             \* [cell, value] the in-flight cell when the
                        \* Updater's last atomic operation acted
  reclaimCall           \* "none", or the direction of the in-flight cell
                        \* when ReclaimByUpdate was last called

rcuHistory == <<publications, published, untaken, taken, returnedPub, owed,
                mustAdvance, discarded, released, incoming, reclaimCall>>

rcuVars == <<next_read_index_, read_, update_, rcu_values_, rpc,
             next_read_index, upc, old_next_read_index, reclaimed, writes,
             stable, lastTryRead, rcuHistory>>

\* ------------------------------------------------------------------------
\* LocalLockFreeMetric<C, D> over the Local3StateExchange<Slice> with
\* Left(), PassLeft(), Right(), PassRight(); LockFreeMetric<C, D>.

kByRightMask == 4

\* The threads that update LockFreeMetric objects, and the objects
Threads == {"t1", "t2"}
Metrics == {"m1", "m2"}

\* A LocalLockFreeMetric is named by the thread and the LockFreeMetric it
\* belongs to; one more is used directly by two threads.
Standalone == <<"updater", "standalone">>
LocalIds == (Threads \X Metrics) \cup {Standalone}

VARIABLES
  locals,               \* per LocalLockFreeMetric: its members, and the
                        \* position and locals of the thread in Update and
                        \* of the thread in Collect
  localHistory          \* per LocalLockFreeMetric, read by the properties:
                        \* updates: Update calls so far (the n-th passes n)
                        \* returned: Update calls that have returned
                        \* collectedAll: the Collect results, concatenated
                        \* lastCollect: the result of the last Collect
                        \* returnedAtCollect: returned when it was called
                        \* collectedAtCollect: the length of collectedAll
                        \*   when the last Collect was called
                        \* updatesAtReturn: updates when it returned

localVars == <<locals, localHistory>>

VARIABLES
  locals_,              \* per LockFreeMetric: locals_, the registered Locals
  lock_,                \* per LockFreeMetric: "free", or "Collect" while a
                        \* Collect holds it (the LocalMetric constructor and
                        \* destructor hold it for one step)
  threadState,          \* per thread: "running", or "exiting" once its
                        \* thread-locals are being destroyed
  threadUpdates,        \* the Update calls the threads have made
  emplacing,            \* per thread: the LockFreeMetric whose LocalMetric its
                        \* Update call has just constructed, or "none"
  collecting,           \* the LockFreeMetric the collecting thread is in
                        \* Collect of, or "none"
  todo,                 \* Collect: the Locals the loop has yet to visit
  result,               \* Collect: result, as pairs <<Local, C>>
  afterJoin,            \* Collect: all threads had terminated at the call
  quiet,                \* the LockFreeMetric on which no Update and no
                        \* thread-local destructor has made a step since the
                        \* last Collect of it was called, or "none"
  repeating,            \* Collect: quiet was this LockFreeMetric at the call
  lfmHistory            \* of the last LockFreeMetric::Collect call that
                        \* has returned, read by the properties:
                        \* metric: the LockFreeMetric, or "none" before
                        \* result: its result
                        \* updaters: the threads that had called Update
                        \*   on it by then
                        \* live: those of them whose Local existed then
                        \* afterJoin: all threads had terminated when it
                        \*   was called
                        \* repeated: it followed a Collect of the same
                        \*   LockFreeMetric, and no Update or thread-local
                        \*   destructor has made a step on that since the
                        \*   earlier Collect was called

fanInVars == <<locals_, lock_, threadState, threadUpdates, emplacing,
               collecting, todo, result, afterJoin, quiet, repeating,
               lfmHistory>>

metricVars == <<localVars, fanInVars>>

\* ------------------------------------------------------------------------
\* refptr::Refcount.

\* The threads that hold references to the counted object
Holders == Threads \cup {"t3"}

VARIABLES
  count_,               \* the atomic counter
  held,                 \* per thread: the references it holds
  decpc,                \* per thread: "idle", or "fetch_sub" inside a
                        \* Dec(true) whose IsOne() was false
  incs,                 \* Inc calls so far
  lastDec               \* history of the Dec calls that returned true:
                        \* calls: how many
                        \* shortcut: one returned without decrementing
                        \* sole: ... and its caller held the sole reference

refcountVars == <<count_, held, decpc, incs, lastDec>>

\* ------------------------------------------------------------------------
\* CopyRcu<T> (simple_rcu/copy_rcu.h).

\* The View objects, each used by a reader thread of its own
Views == {"v1", "v2"}
\* The threads that call Update and UpdateIf
Writers == {"w1", "w2"}

NoWriter == "none"
\* std::nullopt, and "no value" in the history variables
NoValue == -1
\* The T the CopyRcu is constructed with
InitialValue == 0

VARIABLES
  cr_value_,            \* CopyRcu::value_
  cr_lock_,             \* the holder of lock_: a writer, the View that is
                        \* being constructed, or NoWriter
  cr_locals_,           \* CopyRcu::locals_: the registered Views
  views,                \* per View: state ("none", "constructing", "live",
                        \* "unregistered", "gone"), the fields of its
                        \* Local3StateRcu, snapshot_depth_
  updating,             \* for the writer inside UpdateLocked: kind, asked
                        \* (the predicate), value, todo (the locals the
                        \* loop has yet to visit)
  \* --- history variables, read by the properties only ---
  copyRet,              \* the last call of Update or UpdateIf that
                        \* returned: kind, asked (the predicate),
                        \* previous (value_ under the lock), given (the
                        \* argument), value (the result)
  viewHistory           \* per View with a Snapshot alive: owed (the value
                        \* of the last Update that had returned when its
                        \* outermost Read started), cell and value of the
                        \* outermost Read, last (the cell of the last Read)

copyRcuVars == <<cr_value_, cr_lock_, cr_locals_, views, updating,
                 copyRet, viewHistory>>

\* ------------------------------------------------------------------------
\* ThreadLocalDelayed<L> and ThreadLocalWeak<L> (simple_rcu/thread_local.h).

\* The per-thread instances a central object may create
Instances == 1 .. MaxInstances
\* nullptr in a thread's map
NoInstance == 0

VARIABLES
  tl_kind,              \* the class of the central object: "delayed" or
                        \* "weak", "none" before it is constructed
  map_ptr,              \* per thread: the entry of its thread_local map
                        \* under the key shared_ (an instance, NoInstance)
  per_thread_,          \* Shared::per_thread / LocalsList::per_thread_
  abandoned_,           \* per instance: InternalPerThreadBase::abandoned_
  tl_created,           \* instances created so far
  prune,                \* the PruneAndList in progress (it holds the
                        \* mutex): pc, todo, pos, kept, current, abandoned
  callerHolds,          \* instances the callers of PruneAndList own
                        \* (delayed) or hold strong references to (weak)
  destroyed,            \* instances destroyed
  \* --- history variables, read by the properties only ---
  lastTry,              \* per thread, its last call: kind, instance,
                        \* inserted
  handedOver,               \* delayed: instances some PruneAndList returned in
                        \* `abandoned`
  lastResult            \* what the last PruneAndList returned, with began
                        \* (per_thread_ when it was called), goneAtBegin
                        \* (the instances abandoned / expired then),
                        \* goneAtReturn, handedBefore, after (per_thread_
                        \* when it returned)

threadLocalVars == <<tl_kind, map_ptr, per_thread_, abandoned_, tl_created,
                     prune, callerHolds, destroyed, lastTry, handedOver,
                     lastResult>>

\* ------------------------------------------------------------------------
\* ReverseRcu<T> (simple_rcu/reverse_rcu.h).

\* The Local objects, each used by a writer thread of its own
RLocals == {"l1", "l2"}

\* The values written are told apart by their number; a T counts how many
\* times it holds each of them, T() holds none, and += adds up.
ValueIds == 1 .. MaxRcuWrites

VARIABLES
  rr_value_,            \* ReverseRcu::value_
  rr_threads_,          \* ReverseRcu::threads_: the registered Locals
  rlocals,              \* per Local: state ("none", "live", "gone"),
                        \* snapshot_depth_, the fields of local_rcu_
  rcollect,             \* the ReverseRcu::Collect in progress (it holds
                        \* lock_): pc, todo (the Locals yet to visit)
  \* --- history variables, read by the properties only ---
  rr_written,           \* values written so far
  writtenBy,            \* per value: the Local it was written through
  collectedSum,         \* the results of all Collect calls, added up
  settled               \* the Locals that had been destroyed when the
                        \* last Collect was called

reverseRcuVars == <<rr_value_, rr_threads_, rlocals, rcollect, rr_written,
                    writtenBy, collectedSum, settled>>

\* The variables of the components modelled further below
laterVars == <<refcountVars, copyRcuVars, threadLocalVars, reverseRcuVars>>

\* What the steps of one of these components leave unchanged
otherThanRefcount ==
  <<exchVars, rcuVars, metricVars, copyRcuVars, threadLocalVars,
    reverseRcuVars>>
otherThanCopyRcu ==
  <<exchVars, rcuVars, metricVars, refcountVars, threadLocalVars,
    reverseRcuVars>>
otherThanThreadLocal ==
  <<exchVars, rcuVars, metricVars, refcountVars, copyRcuVars,
    reverseRcuVars>>
otherThanReverseRcu ==
  <<exchVars, rcuVars, metricVars, refcountVars, copyRcuVars,
    threadLocalVars>>

vars == <<exchVars, rcuVars, metricVars, laterVars>>

\* ------------------------------------------------------------------------
\* Local3StateExchange(std::in_place, initial): passing_(1),
\* context_{{0, 1}, {2, -1}}, three copies of Slice(initial).

NoResult == [ref |-> 0, exchanged |-> FALSE, past_exchanged |-> FALSE]
NoReturn == [kind |-> "none", value |-> <<>>, exchanged |-> FALSE]

NoCell == [cell |-> -1, value |-> Slice(<<>>)]

InitExchange ==
  /\ passing_ = 1
  /\ context_ = [s \in Sides |->
                   IF s = Right THEN [index |-> 2, last |-> -1]
                                ELSE [index |-> 0, last |-> 1]]
  /\ values_ = [c \in Cells |-> Slice(<<>>)]
  /\ moveEmptiesC \in BOOLEAN
  /\ moveEmptiesD \in BOOLEAN
  /\ delivered = <<>>
  /\ pc = [s \in Sides |-> "idle"]
  /\ diff = [s \in Sides |-> NoOp]
  /\ prev_copy = [s \in Sides |-> NullOpt]
  /\ called_might_double_exchange = [s \in Sides |-> FALSE]
  /\ received = [s \in Sides |-> 0]
  /\ new_index = [s \in Sides |-> 0]
  /\ exchanged = [s \in Sides |-> FALSE]
  /\ next = [s \in Sides |-> NoResult]
  /\ failed = "none"
  /\ holder = [c \in Cells |-> IF c = 0 THEN "Left"
                               ELSE IF c = 2 THEN "Right" ELSE "mid"]
  /\ handed = Slice(<<>>)
  /\ raced = FALSE
  /\ updates = [s \in Sides |-> 0]
  /\ sent = {}
  /\ submitted = <<>>
  /\ before = [s \in Sides |-> [sent |-> {}, submitted |-> <<>>]]
  /\ alone = [s \in Sides |-> FALSE]
  /\ overlap = FALSE
  /\ ret = [s \in Sides |-> NoReturn]
  /\ lastUpdate = [s \in Sides |-> [value |-> <<>>, diff |-> NoOp]]
  /\ wroteSince = [s \in Sides |-> FALSE]
  /\ wroteAtCas = [s \in Sides |-> FALSE]
  /\ cbCell = [s \in Sides |-> -1]
  /\ given = [s \in Sides |-> -1]
  /\ moved = [c \in Cells |-> {}]
  /\ exchangers = [s \in Sides |-> {}]
  /\ passed = [s \in Sides |-> [now |-> NoCell, before |-> NoCell]]

Name(s) == IF s = Right THEN "Right" ELSE "Left"

\* Side::ref(): main_.values_[context().index].value
RefIndex(s) == context_[s].index

\* A side touches cell c: it must be the side that holds it.
Touch(s, c) == raced' = (raced \/ holder[c] # Name(s))

\* What the callback's `prev_copy = std::move(ref)` leaves behind in the cell:
\* a moved-from C and D are valid but unspecified; the builds leave them
\* either unchanged (int, std::optional<int>) or empty (std::string,
\* std::deque).
\* A moved-from std::variant<MonoState, MOp> (UniDiChannel) holds the
\* alternative it held, an MOp moved from.
MovedFrom(slice) ==
  [collected_ |-> IF moveEmptiesC THEN <<>> ELSE slice.collected_,
   last_ |-> IF ~moveEmptiesD THEN slice.last_
             ELSE IF uniDi /\ slice.last_ # NoOp THEN EmptyOp ELSE NoOp]

\* History of a write of `word` to passing_ by side s, which held `old`:
\* the cell named by `word` is handed over, the one named by `old` received.
HandOver(s, old, word) ==
  /\ holder' = [c \in Cells |->
                  IF c = MaskAnd(old, kIndexMask) THEN Name(s)
                  ELSE IF c = MaskAnd(word, kIndexMask) THEN "mid"
                  ELSE holder[c]]
  /\ handed' = values_[MaskAnd(word, kIndexMask)]
  /\ wroteSince' = [t \in Sides |-> t # s]
  /\ given' = [given EXCEPT ![s] = MaskAnd(word, kIndexMask)]
  /\ passed' = [passed EXCEPT ![s].now =
                  [cell |-> MaskAnd(word, kIndexMask),
                   value |-> values_[MaskAnd(word, kIndexMask)]]]

\* History of a Pass of side t writing passing_, by the exchange (e) or by
\* the compare-exchange.
Exchangers(t, e) ==
  [s \in Sides |->
     IF s = t THEN (IF e THEN {t} ELSE {})
     ELSE IF e THEN exchangers[s] \cup {t} ELSE exchangers[s]]

\* TwoThreadConcurrent::Update<Right>(diff), its first statement:
\*   exchange_.side<Right>().ref().Append(diff);
UpdateAppend(s, d) ==
  /\ failed = "none"
  /\ pc[s] = "idle"
  /\ updates[s] < MaxUpdates
  /\ values_' = [values_ EXCEPT ![RefIndex(s)] = SliceAppend(@, d)]
  /\ Touch(s, RefIndex(s))
  /\ diff' = [diff EXCEPT ![s] = d]
  /\ prev_copy' = [prev_copy EXCEPT ![s] = NullOpt]
  /\ pc' = [pc EXCEPT ![s] = "pass"]
  /\ updates' = [updates EXCEPT ![s] = @ + 1]
  /\ sent' = sent \cup ({d} \ {NoOp})
  /\ overlap' = (overlap \/ pc[Other(s)] # "idle")
  /\ submitted' = IF overlap' THEN <<>> ELSE Apply(submitted, d)
  /\ before' = [before EXCEPT ![s] = [sent |-> sent, submitted |-> submitted]]
  /\ alone' = [t \in Sides |-> IF t = s THEN pc[Other(s)] = "idle"
                               ELSE alone[t] /\ pc[t] = "idle"]
  /\ moved' = [moved EXCEPT ![RefIndex(s)] = @ \ {"last_"}]
  /\ UNCHANGED <<passing_, context_, moveEmptiesC, moveEmptiesD, uniDi,
                 called_might_double_exchange, received, new_index, exchanged,
                 next, failed, holder, handed, ret, lastUpdate, wroteSince,
                 wroteAtCas, cbCell, given, exchangers, passed, delivered>>

\* Side::Pass(might_double_exchange), up to the compare-exchange: if the last
\* word this side wrote has kExchangedMask, the callback gets ref() (an
\* lvalue: Update's lambda copies the cell into prev_copy).
PassBegin(s) ==
  /\ failed = "none"
  /\ pc[s] = "pass"
  /\ LET was == MaskTest(context_[s].last, kExchangedMask) IN
       /\ called_might_double_exchange' =
            [called_might_double_exchange EXCEPT ![s] = was]
       /\ prev_copy' = [prev_copy EXCEPT ![s] =
                          IF was THEN Some(values_[RefIndex(s)]) ELSE @]
       /\ cbCell' = [cbCell EXCEPT ![s] = IF was THEN RefIndex(s) ELSE -1]
       /\ raced' = (raced \/ (was /\ holder[RefIndex(s)] # Name(s)))
  /\ given' = [given EXCEPT ![s] = -1]
  /\ pc' = [pc EXCEPT ![s] = "cas"]
  /\ UNCHANGED <<passing_, context_, values_, moveEmptiesC, moveEmptiesD, uniDi, diff,
                 received, new_index, exchanged, next, failed, holder, handed,
                 updates, sent, submitted, before, alone, overlap,
                 ret, lastUpdate, wroteSince, wroteAtCas, moved, exchangers, passed, delivered>>

\* A bug: the word does not say which side wrote it.
NewIndexWithoutSide(s) == context_[s].index

\* A bug: every word written has kExchangedMask.
NewIndexExchanged(s) ==
  MaskOr(IF s = Right THEN MaskOr(context_[s].index, kRightMask)
                      ELSE context_[s].index,
         kExchangedMask)

\* new_index = ctx.index | (Right ? kRightMask : 0)
NewIndex(s) ==
  IF s = Right THEN MaskOr(context_[s].index, kRightMask) ELSE context_[s].index

\* A bug: a failed compare-exchange is tried again.
RetryCas(s) == "cas"

\* if (exchanged) { ... }: a failed compare-exchange goes on to the callback
\* test and the exchange.
AfterFailedCas(s) == "callback"

\* received = ctx.last;
\* exchanged = !passing_.compare_exchange_strong(received, new_index, acq_rel)
PassCas(s) ==
  /\ failed = "none"
  /\ pc[s] = "cas"
  /\ new_index' = [new_index EXCEPT ![s] = NewIndex(s)]
  /\ wroteAtCas' = [wroteAtCas EXCEPT ![s] = wroteSince[s]]
  /\ IF passing_ = context_[s].last
       THEN /\ passing_' = NewIndex(s)
            /\ received' = [received EXCEPT ![s] = context_[s].last]
            /\ exchanged' = [exchanged EXCEPT ![s] = FALSE]
            /\ HandOver(s, passing_, NewIndex(s))
            /\ exchangers' = Exchangers(s, FALSE)
            /\ pc' = [pc EXCEPT ![s] = "store"]
       ELSE /\ received' = [received EXCEPT ![s] = passing_]
            /\ exchanged' = [exchanged EXCEPT ![s] = TRUE]
            /\ pc' = [pc EXCEPT ![s] = AfterFailedCas(s)]
            /\ UNCHANGED <<passing_, holder, handed, wroteSince, given,
                           exchangers, passed>>
  /\ UNCHANGED <<context_, values_, moveEmptiesC, moveEmptiesD, uniDi, diff, prev_copy,
                 called_might_double_exchange, next, failed, raced, updates,
                 sent, submitted, before, alone, overlap, ret, lastUpdate,
                 cbCell, moved, delivered>>

\* A bug: the callback is called before the compare-exchange only.
NeverAfterCas(s) == FALSE

\* ((received & kExchangedMask) != 0) &&
\*     !std::exchange(called_might_double_exchange, true)
CallAfterCas(s) ==
  MaskTest(received[s], kExchangedMask) /\ ~called_might_double_exchange[s]

\* After a failed compare-exchange: if the word seen has kExchangedMask and
\* the callback was not called yet, it gets std::move(ref()) (an rvalue:
\* Update's lambda moves the cell into prev_copy). Then
\* new_index |= kExchangedMask.
PassCallback(s) ==
  /\ failed = "none"
  /\ pc[s] = "callback"
  /\ LET call == CallAfterCas(s) IN
       /\ called_might_double_exchange' =
            [called_might_double_exchange EXCEPT ![s] = @ \/ call]
       /\ prev_copy' = [prev_copy EXCEPT ![s] =
                          IF call THEN Some(values_[RefIndex(s)]) ELSE @]
       /\ values_' = [values_ EXCEPT ![RefIndex(s)] =
                        IF call THEN MovedFrom(@) ELSE @]
       /\ cbCell' = [cbCell EXCEPT ![s] = IF call THEN RefIndex(s) ELSE @]
       /\ raced' = (raced \/ (call /\ holder[RefIndex(s)] # Name(s)))
       /\ moved' = [moved EXCEPT ![RefIndex(s)] =
                      IF call THEN {"collected_", "last_"} ELSE @]
  /\ new_index' = [new_index EXCEPT ![s] = MaskOr(@, kExchangedMask)]
  /\ pc' = [pc EXCEPT ![s] = "exchange"]
  /\ UNCHANGED <<passing_, context_, moveEmptiesC, moveEmptiesD, uniDi, diff, received,
                 exchanged, next, failed, holder, handed, updates, sent,
                 submitted, before, alone, overlap, ret, lastUpdate, wroteSince,
                 wroteAtCas, given, exchangers, passed, delivered>>

\* A bug: the word the failed compare-exchange saw is used, not the one the
\* exchange replaced.
ExchangedWordStale(s) == received[s]

\* The word passing_.exchange() returns.
ExchangedWord(s) == passing_

\* received = passing_.exchange(new_index, acq_rel)
PassExchange(s) ==
  /\ failed = "none"
  /\ pc[s] = "exchange"
  /\ received' = [received EXCEPT ![s] = ExchangedWord(s)]
  /\ passing_' = new_index[s]
  /\ HandOver(s, passing_, new_index[s])
  /\ exchangers' = Exchangers(s, TRUE)
  /\ pc' = [pc EXCEPT ![s] = "store"]
  /\ UNCHANGED <<context_, values_, moveEmptiesC, moveEmptiesD, uniDi, diff, prev_copy,
                 called_might_double_exchange, new_index, exchanged, next,
                 failed, raced, updates, sent, submitted, before,
                 alone, overlap, ret, lastUpdate, wroteAtCas, cbCell, moved, delivered>>

\* A bug: the side keeps its index, the cell it has just handed over.
StoredIndexKept(s) == context_[s].index

\* ctx.index = received & kIndexMask
StoredIndex(s) == MaskAnd(received[s], kIndexMask)

\* A bug: the word is remembered as computed before kExchangedMask was added.
StoredLastWithoutExchanged(s) == NewIndex(s)

\* ctx.last = new_index
StoredLast(s) == new_index[s]

\* ctx.last = new_index; ctx.index = received & kIndexMask;
\* ABSL_DCHECK(called_might_double_exchange || (received & kExchangedMask) == 0);
\* return PassResult{ref(), exchanged, (received & kExchangedMask) != 0}
PassStore(s) ==
  /\ failed = "none"
  /\ pc[s] = "store"
  /\ context_' = [context_ EXCEPT ![s] =
                    [index |-> StoredIndex(s), last |-> StoredLast(s)]]
  /\ failed' = IF called_might_double_exchange[s]
                    \/ ~MaskTest(received[s], kExchangedMask)
                 THEN "none" ELSE "DCHECK"
  /\ next' = [next EXCEPT ![s] =
                [ref |-> StoredIndex(s),
                 exchanged |-> exchanged[s],
                 past_exchanged |-> MaskTest(received[s], kExchangedMask)]]
  /\ pc' = [pc EXCEPT ![s] = "post"]
  /\ passed' = [passed EXCEPT ![s] = [now |-> NoCell, before |-> @.now]]
  /\ UNCHANGED <<passing_, values_, moveEmptiesC, moveEmptiesD, uniDi, diff, prev_copy,
                 called_might_double_exchange, received, new_index, exchanged,
                 holder, handed, raced, updates, sent, submitted,
                 before, alone, overlap, ret, lastUpdate, wroteSince, wroteAtCas, cbCell,
                 given, moved, exchangers, delivered>>

\* A bug: the pending diff of the cell is applied in every case.
MergedAlwaysAppend(slice, res, copy, d) ==
  IF res.past_exchanged
    THEN SliceAppend([slice EXCEPT !.collected_ = copy.value.collected_], d)
    ELSE SliceAppend(slice, d)

\* What Update stores in the cell Pass returned (next.ref):
\*   if (next.past_exchanged) {
\*     next.ref.collected_ = std::move(prev_copy)->collected_;
\*     if (next.exchanged) next.ref.Append(diff); else next.ref.last_ = diff;
\*   } else next.ref.Append(diff);
Merged(slice, res, copy, d) ==
  IF res.past_exchanged
    THEN IF res.exchanged
           THEN SliceAppend([slice EXCEPT !.collected_ = copy.value.collected_], d)
           ELSE [collected_ |-> copy.value.collected_, last_ |-> d]
    ELSE SliceAppend(slice, d)

\* The accumulator Update returns: next.ref.collected_
UpdateResult(s) ==
  Merged(values_[next[s].ref], next[s], prev_copy[s], diff[s]).collected_

\* UniDiChannel::UpdateRight returns
\*   std::move(const_cast<M&>(ttc_.Update<true>(MonoState()).first)),
\* which leaves a moved-from M in the cell.
MovedOut(s, slice) ==
  IF uniDi /\ s = Right
    THEN [slice EXCEPT !.collected_ = MovedFrom(slice).collected_]
    ELSE slice

\* The rest of Update after Pass returned, with
\* ABSL_CHECK(prev_copy.has_value()); returns {next.ref.collected_, next.exchanged}.
\* The locals of the call end with it.
UpdateFinish(s) ==
  /\ failed = "none"
  /\ pc[s] = "post"
  /\ IF next[s].past_exchanged /\ ~prev_copy[s].has_value
       THEN /\ failed' = "CHECK"
            /\ UNCHANGED <<values_, raced, ret, lastUpdate, pc, diff, prev_copy,
                           called_might_double_exchange, received, new_index,
                           exchanged, next, wroteAtCas, cbCell, given, moved,
                           delivered>>
       ELSE /\ values_' = [values_ EXCEPT ![next[s].ref] =
                             MovedOut(s, Merged(@, next[s], prev_copy[s],
                                                diff[s]))]
            /\ moved' = [moved EXCEPT ![next[s].ref] =
                           (IF next[s].past_exchanged
                              THEN {} ELSE @ \ {"last_"})
                           \cup (IF uniDi /\ s = Right
                                   THEN {"collected_"} ELSE {})]
            /\ Touch(s, next[s].ref)
            /\ ret' = [ret EXCEPT ![s] =
                         [kind |-> "Update",
                          value |-> UpdateResult(s),
                          exchanged |-> next[s].exchanged]]
            /\ lastUpdate' = [lastUpdate EXCEPT ![s] =
                                [value |-> UpdateResult(s),
                                 diff |-> diff[s]]]
            /\ delivered' = IF uniDi /\ s = Right
                              THEN delivered \o UpdateResult(s)
                              ELSE delivered
            /\ pc' = [pc EXCEPT ![s] = "idle"]
            /\ diff' = [diff EXCEPT ![s] = NoOp]
            /\ prev_copy' = [prev_copy EXCEPT ![s] = NullOpt]
            /\ called_might_double_exchange' =
                 [called_might_double_exchange EXCEPT ![s] = FALSE]
            /\ received' = [received EXCEPT ![s] = 0]
            /\ new_index' = [new_index EXCEPT ![s] = 0]
            /\ exchanged' = [exchanged EXCEPT ![s] = FALSE]
            /\ next' = [next EXCEPT ![s] = NoResult]
            /\ wroteAtCas' = [wroteAtCas EXCEPT ![s] = FALSE]
            /\ cbCell' = [cbCell EXCEPT ![s] = -1]
            /\ given' = [given EXCEPT ![s] = -1]
            /\ UNCHANGED failed
  /\ UNCHANGED <<passing_, context_, moveEmptiesC, moveEmptiesD, uniDi, holder, handed,
                 updates, sent, submitted, before, alone, overlap,
                 wroteSince, exchangers, passed>>

\* A bug: ObserveLast drops the pending diff instead of applying it.
ObservedWithoutLast(slice) == [slice EXCEPT !.last_ = NoOp]

\* ObserveLast: the cell after ref().Append(U::NoOp())
Observed(slice) == SliceAppend(slice, NoOp)

\* TwoThreadConcurrent::ObserveLast<Right>():
\*   return exchange_.side<Right>().ref().Append(U::NoOp());
ObserveLast(s) ==
  /\ failed = "none"
  /\ pc[s] = "idle"
  /\ values_' = [values_ EXCEPT ![RefIndex(s)] = Observed(@)]
  /\ Touch(s, RefIndex(s))
  /\ ret' = [ret EXCEPT ![s] =
               [kind |-> "ObserveLast",
                value |-> values_'[RefIndex(s)].collected_,
                exchanged |-> FALSE]]
  /\ moved' = [moved EXCEPT ![RefIndex(s)] = @ \ {"last_"}]
  /\ UNCHANGED <<passing_, context_, moveEmptiesC, moveEmptiesD, uniDi, pc, diff,
                 prev_copy, called_might_double_exchange, received, new_index,
                 exchanged, next, failed, holder, handed, updates, sent,
                 submitted, before, alone, overlap, lastUpdate, wroteSince,
                 wroteAtCas, cbCell, given, exchangers, passed, delivered>>

\* The diff of a side's k-th Update: distinct for every call (the tests'
\* `counter += 1`). Neither Pass nor Update branches on a diff, and Apply
\* commutes with erasing a diff from every C and D, so a run in which some
\* Update passes NoOp is a run of this model with that call's diff erased.
FreshDiff(s) == (IF s = Right THEN 10 ELSE 0) + updates[s] + 1

\* UniDiChannel: UpdateLeft(diff) is ttc_.Update<false>(diff), UpdateRight()
\* is ttc_.Update<true>(MonoState()); ObserveLast is never called.
NextChannel ==
  \/ UpdateAppend(Left, FreshDiff(Left))
       /\ UNCHANGED <<rcuVars, metricVars, laterVars>>
  \/ UpdateAppend(Right, NoOp)
       /\ UNCHANGED <<rcuVars, metricVars, laterVars>>
  \/ \E s \in Sides :
       \/ PassBegin(s) /\ UNCHANGED <<rcuVars, metricVars, laterVars>>
       \/ PassCas(s) /\ UNCHANGED <<rcuVars, metricVars, laterVars>>
       \/ PassCallback(s) /\ UNCHANGED <<rcuVars, metricVars, laterVars>>
       \/ PassExchange(s) /\ UNCHANGED <<rcuVars, metricVars, laterVars>>
       \/ PassStore(s) /\ UNCHANGED <<rcuVars, metricVars, laterVars>>
       \/ UpdateFinish(s) /\ UNCHANGED <<rcuVars, metricVars, laterVars>>

NextExchange ==
  \E s \in Sides :
    \/ UpdateAppend(s, FreshDiff(s)) /\ UNCHANGED <<rcuVars, metricVars, laterVars>>
    \/ PassBegin(s) /\ UNCHANGED <<rcuVars, metricVars, laterVars>>
    \/ PassCas(s) /\ UNCHANGED <<rcuVars, metricVars, laterVars>>
    \/ PassCallback(s) /\ UNCHANGED <<rcuVars, metricVars, laterVars>>
    \/ PassExchange(s) /\ UNCHANGED <<rcuVars, metricVars, laterVars>>
    \/ PassStore(s) /\ UNCHANGED <<rcuVars, metricVars, laterVars>>
    \/ UpdateFinish(s) /\ UNCHANGED <<rcuVars, metricVars, laterVars>>
    \/ ObserveLast(s) /\ UNCHANGED <<rcuVars, metricVars, laterVars>>

\* ------------------------------------------------------------------------
\* Local3StateRcu(read, update, reclaim): values_{read, update, reclaim},
\* next_read_index_(kNullIndex), read_{0}, update_{1, 0}. A value of T is
\* [tag, n]: the constructor's n-th argument, the Updater's n-th value, or
\* one of these after the Reader or the Updater marked it.

\* A bug: the constructor binds Update() to the third cell.
ConstructedUpdateThird == [index |-> 2, next_index |-> 0]

\* update_{.index = 1, .next_index = 0}
ConstructedUpdate == [index |-> 1, next_index |-> 0]

InitRcu ==
  /\ next_read_index_ = kNullIndex
  /\ read_ = [index |-> 0]
  /\ update_ = ConstructedUpdate
  /\ rcu_values_ = [c \in Cells |-> [tag |-> "initial", n |-> c]]
  /\ rpc = "idle"
  /\ next_read_index = kNullIndex
  /\ upc = "idle"
  /\ old_next_read_index = kNullIndex
  /\ reclaimed = kNullIndex
  /\ writes = 0
  /\ stable = [cell |-> 0, value |-> [tag |-> "initial", n |-> 0]]
  /\ lastTryRead = "none"
  /\ publications = 0
  /\ published = [cell |-> kNullIndex, value |-> [tag |-> "none", n |-> 0]]
  /\ untaken = FALSE
  /\ taken = [cell |-> 0, value |-> [tag |-> "initial", n |-> 0], seq |-> 0]
  /\ returnedPub = 0
  /\ owed = 0
  /\ mustAdvance = FALSE
  /\ discarded = {}
  /\ released = [cell |-> 2, value |-> [tag |-> "initial", n |-> 2]]
  /\ incoming = [cell |-> 2, value |-> [tag |-> "initial", n |-> 2]]
  /\ reclaimCall = "none"

\* Reader: a write through Read() (the tests' `rcu.Read() = -i`).
ReadWrite ==
  /\ rpc = "idle"
  /\ rcu_values_[read_.index].tag # "consumed"
  /\ rcu_values_' = [rcu_values_ EXCEPT ![read_.index].tag = "consumed"]
  /\ stable' = [stable EXCEPT !.value = rcu_values_'[read_.index]]
  /\ UNCHANGED <<next_read_index_, read_, update_, rpc, next_read_index, upc,
                 old_next_read_index, reclaimed, writes, lastTryRead,
                 rcuHistory>>

\* A bug: TryRead loads next_read_index_ and leaves it as it is.
TryReadLeavesIndex == next_read_index_

\* What TryRead's exchange leaves in next_read_index_
TryReadLeaves == kNullIndex

\* TryRead: next_read_index = next_read_index_.exchange(kNullIndex, acq_rel)
TryReadExchange ==
  /\ rpc = "idle"
  /\ next_read_index' = next_read_index_
  /\ next_read_index_' = TryReadLeaves
  /\ rpc' = "TryRead"
  /\ untaken' = FALSE
  /\ owed' = returnedPub
  /\ mustAdvance' = (returnedPub > owed)
  /\ IF next_read_index_ # kNullIndex
       THEN /\ taken' = [cell |-> published.cell, value |-> published.value,
                         seq |-> publications]
            /\ released' = [cell |-> read_.index,
                            value |-> rcu_values_[read_.index]]
       ELSE UNCHANGED <<taken, released>>
  /\ UNCHANGED <<read_, update_, rcu_values_, upc, old_next_read_index,
                 reclaimed, writes, stable, lastTryRead, publications,
                 published, returnedPub, discarded, incoming, reclaimCall>>

\* A bug: the Reader never stores the index its exchange returned.
AdvancesNever == FALSE

\* if (next_read_index != kNullIndex)
Advances == next_read_index # kNullIndex

\* TryRead: read_.index = next_read_index; return true; or return false.
TryReadFinish ==
  /\ rpc = "TryRead"
  /\ IF Advances
       THEN /\ read_' = [index |-> next_read_index]
            /\ stable' = [cell |-> next_read_index,
                          value |-> IF next_read_index \in Cells
                                      THEN rcu_values_[next_read_index]
                                      ELSE [tag |-> "invalid", n |-> 0]]
            /\ lastTryRead' = "true"
       ELSE /\ lastTryRead' = "false"
            /\ UNCHANGED <<read_, stable>>
  /\ rpc' = "idle"
  /\ next_read_index' = kNullIndex
  /\ UNCHANGED <<next_read_index_, update_, rcu_values_, upc,
                 old_next_read_index, reclaimed, writes, rcuHistory>>

\* Updater: a write through Update() (the tests' `rcu.Update() = i`).
UpdateWrite ==
  /\ upc = "idle"
  /\ writes < MaxWrites
  /\ writes' = writes + 1
  /\ rcu_values_' = [rcu_values_ EXCEPT ![update_.index] =
                       [tag |-> "written", n |-> writes + 1]]
  /\ UNCHANGED <<next_read_index_, read_, update_, rpc, next_read_index, upc,
                 old_next_read_index, reclaimed, stable, lastTryRead,
                 rcuHistory>>

\* A bug: the Updater publishes the cell it published last.
PublishedIsNext == update_.next_index

\* The index TryUpdate and ForceUpdate store: update_.index
Published == update_.index

\* A bug: the cell last published is taken for the one the Reader released.
OldReadIndexIsNext == update_.next_index

\* update_.OldReadIndex(): (0 + 1 + 2) - (index + next_index)
OldReadIndex == (0 + 1 + 2) - (update_.index + update_.next_index)

\* A bug: the Updater goes back to the cell it published before.
RotateToNext == [index |-> update_.next_index, next_index |-> update_.index]

\* update_.RotateAfterNext(): next_index <- index <- old read index
RotateAfterNext == [index |-> OldReadIndex, next_index |-> update_.index]

\* TryUpdate: next_read_index_.compare_exchange_strong(old_next_read_index
\* = kNullIndex, update_.index, acq_rel, relaxed). A failed compare-exchange
\* loads the current value into old_next_read_index.
TryUpdateCas ==
  /\ upc = "idle"
  /\ next_read_index_ = kNullIndex => publications < MaxPublications
  /\ upc' = "TryUpdate"
  /\ old_next_read_index' = next_read_index_
  /\ IF next_read_index_ = kNullIndex
       THEN /\ next_read_index_' = Published
            /\ publications' = publications + 1
            /\ published' = [cell |-> next_read_index_',
                             value |-> rcu_values_[update_.index]]
            /\ untaken' = TRUE
            /\ incoming' = released
       ELSE UNCHANGED <<next_read_index_, publications, published, untaken,
                        incoming>>
  /\ reclaimed' = kNullIndex
  /\ reclaimCall' = "none"
  /\ UNCHANGED <<read_, update_, rcu_values_, rpc, next_read_index, writes,
                 stable, lastTryRead, taken, returnedPub, owed, mustAdvance,
                 discarded, released>>

\* A bug: a rejected TryUpdate takes the published cell back.
RejectedSwaps == [index |-> old_next_read_index, next_index |-> update_.index]

\* TryUpdate, "The reader hasn't advanced yet. Nothing to do."
Rejected == update_

\* TryUpdate: update_.RotateAfterNext(); return true; or return false.
TryUpdateFinish ==
  /\ upc = "TryUpdate"
  /\ update_' = IF old_next_read_index = kNullIndex
                  THEN RotateAfterNext ELSE Rejected
  /\ upc' = "idle"
  /\ old_next_read_index' = kNullIndex
  /\ UNCHANGED <<next_read_index_, read_, rcu_values_, rpc, next_read_index,
                 reclaimed, writes, stable, lastTryRead, rcuHistory>>

\* ForceUpdate:
\*   old_next_read_index = next_read_index_.exchange(update_.index, acq_rel)
ForceUpdateExchange ==
  /\ upc = "idle"
  /\ upc' = "ForceUpdate"
  /\ publications < MaxPublications
  /\ old_next_read_index' = next_read_index_
  /\ next_read_index_' = Published
  /\ publications' = publications + 1
  /\ published' = [cell |-> next_read_index_',
                   value |-> rcu_values_[update_.index]]
  /\ untaken' = TRUE
  /\ incoming' = IF untaken THEN published ELSE released
  /\ discarded' = IF untaken THEN discarded \cup {publications} ELSE discarded
  /\ reclaimed' = kNullIndex
  /\ reclaimCall' = "none"
  /\ UNCHANGED <<read_, update_, rcu_values_, rpc, next_read_index, writes,
                 stable, lastTryRead, taken, returnedPub, owed, mustAdvance,
                 released>>

\* A bug: the Updater rotates although the Reader has not advanced.
SwappedRotates == RotateAfterNext

\* A bug: ForceUpdate takes the cell back and forgets which one it published.
SwappedKeepsNext ==
  [index |-> old_next_read_index, next_index |-> update_.next_index]

\* update_.next_index = update_.index; update_.index = old_next_read_index
Swapped == [index |-> old_next_read_index, next_index |-> update_.index]

\* ForceUpdate: rotate and return true if the old value was kNullIndex, else
\* swap update_.index with the value taken back and return false.
ForceUpdateFinish ==
  /\ upc = "ForceUpdate"
  /\ update_' = IF old_next_read_index = kNullIndex
                  THEN RotateAfterNext ELSE Swapped
  /\ upc' = "idle"
  /\ old_next_read_index' = kNullIndex
  /\ returnedPub' = publications
  /\ UNCHANGED <<next_read_index_, read_, rcu_values_, rpc, next_read_index,
                 reclaimed, writes, stable, lastTryRead, publications,
                 published, untaken, taken, owed, mustAdvance, discarded,
                 released, incoming, reclaimCall>>

\* A bug: ReclaimByUpdate returns a cell whatever next_read_index_ is.
ReclaimableAlways == TRUE

\* if (next_read_index_.load(std::memory_order_acquire) == kNullIndex)
Reclaimable == next_read_index_ = kNullIndex

\* ReclaimByUpdate: &values_[update_.OldReadIndex()] if
\* next_read_index_.load(acquire) == kNullIndex, else nullptr. The pointer is
\* valid until the next TryUpdate or ForceUpdate.
ReclaimByUpdate ==
  /\ upc = "idle"
  /\ reclaimed' = IF Reclaimable THEN OldReadIndex ELSE kNullIndex
  /\ reclaimCall' = IF untaken THEN "U->R" ELSE "R->U"
  /\ reclaimed' # reclaimed \/ reclaimCall' # reclaimCall
  /\ UNCHANGED <<next_read_index_, read_, update_, rcu_values_, rpc,
                 next_read_index, upc, old_next_read_index, writes, stable,
                 lastTryRead, publications, published, untaken, taken,
                 returnedPub, owed, mustAdvance, discarded, released,
                 incoming>>

\* Updater: a write through the pointer ReclaimByUpdate returned.
ReclaimWrite ==
  /\ upc = "idle"
  /\ reclaimed # kNullIndex
  /\ rcu_values_[reclaimed].tag # "reclaimed"
  /\ rcu_values_' = [rcu_values_ EXCEPT ![reclaimed].tag = "reclaimed"]
  /\ UNCHANGED <<next_read_index_, read_, update_, rpc, next_read_index, upc,
                 old_next_read_index, reclaimed, writes, stable, lastTryRead,
                 rcuHistory>>

NextRcu ==
  \/ ReadWrite /\ UNCHANGED <<exchVars, metricVars, laterVars>>
  \/ TryReadExchange /\ UNCHANGED <<exchVars, metricVars, laterVars>>
  \/ TryReadFinish /\ UNCHANGED <<exchVars, metricVars, laterVars>>
  \/ UpdateWrite /\ UNCHANGED <<exchVars, metricVars, laterVars>>
  \/ TryUpdateCas /\ UNCHANGED <<exchVars, metricVars, laterVars>>
  \/ TryUpdateFinish /\ UNCHANGED <<exchVars, metricVars, laterVars>>
  \/ ForceUpdateExchange /\ UNCHANGED <<exchVars, metricVars, laterVars>>
  \/ ForceUpdateFinish /\ UNCHANGED <<exchVars, metricVars, laterVars>>
  \/ ReclaimByUpdate /\ UNCHANGED <<exchVars, metricVars, laterVars>>
  \/ ReclaimWrite /\ UNCHANGED <<exchVars, metricVars, laterVars>>

\* ------------------------------------------------------------------------
\* LocalLockFreeMetric: Slice, Update, Collect. C is a collection that +=
\* appends to (the tests' BackCollection), D its element.

\* Slice{}: start_ = 0, end_ = 0, collected_ = C{}, last_ = nullopt
EmptySlice == [start_ |-> 0, end_ |-> 0, collected_ |-> <<>>, last_ |-> <<>>]

\* Slice::size, Slice::empty
SliceSize(slice) == slice.end_ - slice.start_
SliceEmpty(slice) == slice.last_ = <<>>

\* Slice::Append: collected_ += *last_ if it has a value; last_ = value; end_++
MetricAppend(slice, v) ==
  [slice EXCEPT !.collected_ = slice.collected_ \o slice.last_,
                !.last_ = <<v>>,
                !.end_ = slice.end_ + 1]

\* Slice::KeepJustLast
KeepJustLast(slice) ==
  [slice EXCEPT !.start_ = slice.end_ - 1, !.collected_ = <<>>]

\* Slice::Reset
Reset(slice, new_start) ==
  [start_ |-> new_start, end_ |-> new_start,
   collected_ |-> IF SliceEmpty(slice) THEN slice.collected_ ELSE <<>>,
   last_ |-> <<>>]

\* Slice::CollectAndReset: the Slice left behind, and the C returned
AfterCollectAndReset(slice) ==
  [slice EXCEPT !.start_ = slice.end_, !.collected_ = <<>>, !.last_ = <<>>]
CollectAndReset(slice) == slice.collected_ \o slice.last_

\* LocalLockFreeMetric{}: update_index_ = 0, collect_index_ = 0, and
\* Local3StateExchange() : left_(0), passing_(1), right_(2), three Slice{}
NewLocal ==
  [state |-> "live",
   left_ |-> 0, passing_ |-> 1, right_ |-> 2,
   values_ |-> [c \in Cells |-> EmptySlice],
   update_index_ |-> 0, collect_index_ |-> 0,
   upc |-> "idle", value |-> 0, last_start |-> 0, exchanged |-> FALSE,
   cpc |-> "idle", failed |-> "none"]

\* A LocalLockFreeMetric that is not constructed yet
NoLocal == [NewLocal EXCEPT !.state = "none"]

NoLocalHistory ==
  [updates |-> 0, returned |-> 0, collectedAll |-> <<>>, lastCollect |-> <<>>,
   returnedAtCollect |-> 0, collectedAtCollect |-> 0, updatesAtReturn |-> 0]

NoLfmHistory ==
  [metric |-> "none", result |-> {}, updaters |-> {}, live |-> {},
   afterJoin |-> FALSE, repeated |-> FALSE]

InitMetric ==
  /\ locals = [l \in LocalIds |-> IF l = Standalone THEN NewLocal ELSE NoLocal]
  /\ localHistory = [l \in LocalIds |-> NoLocalHistory]
  /\ locals_ = [m \in Metrics |-> {}]
  /\ lock_ = [m \in Metrics |-> "free"]
  /\ threadState = [t \in Threads |-> "running"]
  /\ threadUpdates = 0
  /\ emplacing = [t \in Threads |-> "none"]
  /\ collecting = "none"
  /\ todo = {}
  /\ result = {}
  /\ lfmHistory = NoLfmHistory
  /\ afterJoin = FALSE
  /\ quiet = "none"
  /\ repeating = FALSE

\* received & kByRightMask
PassedByRight(word) == (word \div kByRightMask) % 2 = 1

\* A bug: Update leaves the Slice it passes without the value.
UpdatePrevWithout(L, v) == L.values_[L.left_]

\* Update: `prev` after prev.Append(value)
UpdatePrev(L, v) == MetricAppend(L.values_[L.left_], v)

\* Update(value), lines up to PassLeft: prev = Left(); prev.Append(value);
\* last_start = prev.start(); PassLeft: received = passing_.exchange(left_);
\* left_ = received & kIndexMask; exchanged = received & kByRightMask.
LocalUpdatePassLeft(L, v) ==
  [L EXCEPT !.value = v,
            !.values_[L.left_] = UpdatePrev(L, v),
            !.last_start = L.values_[L.left_].start_,
            !.passing_ = L.left_,
            !.left_ = MaskAnd(L.passing_, kIndexMask),
            !.exchanged = PassedByRight(L.passing_),
            !.upc = "Update"]

\* Update: the Slice `next` after the if / else-if, before its Append
UpdateNext(L) ==
  LET slice == L.values_[L.left_]
  IN IF L.exchanged
       THEN Reset(slice, L.update_index_)
       ELSE IF L.last_start - slice.start_ > 0
              THEN KeepJustLast(slice) ELSE slice

\* The ABSL_CHECKs of Update hold
UpdateChecks(L) ==
  LET slice == L.values_[L.left_]
  IN /\ L.exchanged => SliceEmpty(slice)
     /\ (~L.exchanged /\ L.last_start - slice.start_ > 0)
          => L.last_start - slice.start_ = SliceSize(slice) - 1
     /\ UpdateNext(L).end_ = L.update_index_

\* Update, after PassLeft: reset or trim `next`, update_index_++,
\* next.Append(std::move(value))
LocalUpdateFinish(L) ==
  IF UpdateChecks(L)
    THEN [L EXCEPT !.values_[L.left_] = MetricAppend(UpdateNext(L), L.value),
                   !.update_index_ = L.update_index_ + 1,
                   !.value = 0, !.last_start = 0, !.exchanged = FALSE,
                   !.upc = "idle"]
    ELSE [L EXCEPT !.failed = "CHECK"]

\* A bug: Collect's word does not say that Collect wrote it.
PassedWordUnmarked(L) == L.right_

\* right_ | kByRightMask
PassedWord(L) == L.right_ + kByRightMask

\* Collect, PassRight: received = passing_.exchange(right_ | kByRightMask);
\* right_ = received & kIndexMask
LocalCollectPassRight(L) ==
  [L EXCEPT !.passing_ = PassedWord(L),
            !.right_ = MaskAnd(L.passing_, kIndexMask),
            !.cpc = "Collect"]

\* collect_index_ - next.start()
Seen(L) == L.collect_index_ - L.values_[L.right_].start_

\* A bug: Collect returns the whole Slice, also what it has seen before.
CollectTrimmedNever(L) == L.values_[L.right_]

\* Collect: `next` after `if (seen > 0) next.KeepJustLast()`
CollectTrimmed(L) ==
  IF Seen(L) > 0 THEN KeepJustLast(L.values_[L.right_]) ELSE L.values_[L.right_]

\* Collect, after PassRight: which return is taken, or which check fails
CollectBranch(L) ==
  LET slice == L.values_[L.right_]
  IN IF Seen(L) < 0 THEN "FATAL"
     ELSE IF Seen(L) < SliceSize(slice)
       THEN IF Seen(L) > 0 /\ Seen(L) # SliceSize(slice) - 1
              THEN "CHECK" ELSE "collect"
       ELSE IF ~SliceEmpty(slice) THEN "CHECK" ELSE "reset"

\* Collect, after PassRight: the LocalLockFreeMetric it leaves
LocalCollectFinish(L) ==
  CASE CollectBranch(L) = "collect" ->
         [L EXCEPT !.collect_index_ =
                      L.collect_index_ + SliceSize(CollectTrimmed(L)),
                   !.values_[L.right_] =
                      AfterCollectAndReset(CollectTrimmed(L)),
                   !.cpc = "idle"]
    [] CollectBranch(L) = "reset" ->
         [L EXCEPT !.values_[L.right_] =
                      Reset(L.values_[L.right_], L.collect_index_),
                   !.cpc = "idle"]
    [] OTHER -> [L EXCEPT !.failed = CollectBranch(L)]

\* Collect, after PassRight: the C it returns
CollectResult(L) ==
  IF CollectBranch(L) = "collect"
    THEN CollectAndReset(CollectTrimmed(L)) ELSE <<>>

\* A thread calls Update(v) on the LocalLockFreeMetric l, up to PassLeft.
UpdatePassLeft(l, v) ==
  /\ locals[l].state = "live" /\ locals[l].failed = "none"
  /\ locals[l].upc = "idle"
  /\ localHistory[l].updates < MaxMetricUpdates
  /\ locals' = [locals EXCEPT ![l] = LocalUpdatePassLeft(locals[l], v)]
  /\ localHistory' = [localHistory EXCEPT ![l].updates = @ + 1]

\* Update on l returns, or a check of it fails.
UpdateFinishMetric(l) ==
  /\ locals[l].state = "live" /\ locals[l].failed = "none"
  /\ locals[l].upc = "Update"
  /\ locals' = [locals EXCEPT ![l] = LocalUpdateFinish(locals[l])]
  /\ localHistory' =
       IF UpdateChecks(locals[l])
         THEN [localHistory EXCEPT ![l].returned = @ + 1]
         ELSE localHistory

\* A thread calls Collect() on l, up to PassRight.
CollectPassRight(l) ==
  /\ locals[l].state = "live" /\ locals[l].failed = "none"
  /\ locals[l].cpc = "idle"
  /\ locals' = [locals EXCEPT ![l] = LocalCollectPassRight(locals[l])]
  /\ localHistory' = [localHistory EXCEPT
                        ![l].returnedAtCollect = localHistory[l].returned,
                        ![l].collectedAtCollect =
                           Len(localHistory[l].collectedAll)]

\* Collect on l returns, or a check of it fails.
CollectFinish(l) ==
  /\ locals[l].state = "live" /\ locals[l].failed = "none"
  /\ locals[l].cpc = "Collect"
  /\ locals' = [locals EXCEPT ![l] = LocalCollectFinish(locals[l])]
  /\ localHistory' =
       IF CollectBranch(locals[l]) \in {"collect", "reset"}
         THEN [localHistory EXCEPT
                 ![l].lastCollect = CollectResult(locals[l]),
                 ![l].updatesAtReturn = localHistory[l].updates,
                 ![l].collectedAll = @ \o CollectResult(locals[l])]
         ELSE localHistory

NextMetric ==
  \/ UpdatePassLeft(Standalone, localHistory[Standalone].updates + 1)
       /\ UNCHANGED <<exchVars, rcuVars, fanInVars, laterVars>>
  \/ UpdateFinishMetric(Standalone)
       /\ UNCHANGED <<exchVars, rcuVars, fanInVars, laterVars>>
  \/ CollectPassRight(Standalone)
       /\ UNCHANGED <<exchVars, rcuVars, fanInVars, laterVars>>
  \/ CollectFinish(Standalone)
       /\ UNCHANGED <<exchVars, rcuVars, fanInVars, laterVars>>

\* ------------------------------------------------------------------------
\* LockFreeMetric<C, D>: Update by any thread through its thread-local
\* LocalMetric, Collect by a collecting thread. The LockFreeMetric objects
\* outlive the threads (metric_.lock() != nullptr, ptr != nullptr).
\*
\* Local::Update and Local::Collect are one step each here, taken at their
\* exchange on passing_: what they do before and after it is to the Slice
\* the calling thread owns, which SpecMetric explores step by step.

\* The thread is inside an Update call.
Busy(t) == emplacing[t] # "none"

\* Local::Update(v) as a whole
LocalUpdate(L, v) == LocalUpdateFinish(LocalUpdatePassLeft(L, v))

\* Local::Collect() as a whole: the Local it leaves, the C it returns
LocalCollect(L) == LocalCollectFinish(LocalCollectPassRight(L))
LocalCollected(L) == CollectResult(LocalCollectPassRight(L))

\* LocalMetric::LocalMetric: metric->locals_.insert(local_.get())
Inserted(m, l) == [locals_ EXCEPT ![m] = @ \cup {l}]

\* ~LocalMetric: metric->locals_.erase(local_.get())
Erased(m, l) == [locals_ EXCEPT ![m] = @ \ {l}]

\* An Update or a destructor makes a step on the LockFreeMetric m.
Disturbed(m) == IF quiet = m THEN "none" ELSE quiet

\* Update(value, ptr), first call of thread t for m: try_emplace finds no
\* LocalMetric of this thread for ptr and constructs one, whose constructor
\* makes the Local and inserts it into locals_ under lock_.
LfmEmplace(t, m) ==
  /\ threadState[t] = "running" /\ ~Busy(t)
  /\ threadUpdates < MaxThreadUpdates
  /\ locals[<<t, m>>].state = "none"
  /\ lock_[m] = "free"
  /\ locals' = [locals EXCEPT ![<<t, m>>] = NewLocal]
  /\ locals_' = Inserted(m, <<t, m>>)
  /\ emplacing' = [emplacing EXCEPT ![t] = m]
  /\ threadUpdates' = threadUpdates + 1
  /\ quiet' = Disturbed(m)
  /\ UNCHANGED <<localHistory, lock_, threadState, collecting, todo, result,
                 afterJoin, repeating, lfmHistory>>

\* Update(value, ptr): .local().local().Update(value), on the LocalMetric
\* just constructed or on the one try_emplace has found.
LfmUpdate(t, m) ==
  /\ threadState[t] = "running"
  /\ \/ emplacing[t] = m /\ threadUpdates' = threadUpdates
     \/ /\ ~Busy(t)
        /\ threadUpdates < MaxThreadUpdates
        /\ threadUpdates' = threadUpdates + 1
  /\ locals[<<t, m>>].state = "live" /\ locals[<<t, m>>].failed = "none"
  /\ locals' = [locals EXCEPT ![<<t, m>>] =
                  LocalUpdate(@, localHistory[<<t, m>>].updates + 1)]
  /\ localHistory' = [localHistory EXCEPT ![<<t, m>>].updates = @ + 1,
                                          ![<<t, m>>].returned = @ + 1]
  /\ emplacing' = [emplacing EXCEPT ![t] = "none"]
  /\ quiet' = Disturbed(m)
  /\ UNCHANGED <<locals_, lock_, threadState, collecting, todo, result,
                 afterJoin, repeating, lfmHistory>>

\* The thread t terminates: its thread-local LocalMetric objects are
\* destroyed, in any order.
LfmThreadExit(t) ==
  /\ threadState[t] = "running" /\ ~Busy(t)
  /\ threadState' = [threadState EXCEPT ![t] = "exiting"]
  /\ UNCHANGED <<localVars, locals_, lock_, threadUpdates, emplacing,
                 collecting, todo, result, afterJoin, quiet, repeating,
                 lfmHistory>>

\* ~LocalMetric of thread t for m: erases the Local from locals_ under
\* lock_; ~unique_ptr<Local> then destroys the Local.
LfmDestroy(t, m) ==
  /\ threadState[t] = "exiting"
  /\ locals[<<t, m>>].state = "live"
  /\ lock_[m] = "free"
  /\ locals_' = Erased(m, <<t, m>>)
  /\ locals' = [locals EXCEPT ![<<t, m>>] = [NoLocal EXCEPT !.state = "destroyed"]]
  /\ quiet' = Disturbed(m)
  /\ UNCHANGED <<localHistory, lock_, threadState, threadUpdates, emplacing,
                 collecting, todo, result, afterJoin, repeating, lfmHistory>>

\* The thread has terminated and can be joined.
Joined(t) ==
  /\ threadState[t] = "exiting"
  /\ \A m \in Metrics : locals[<<t, m>>].state # "live"

\* Collect(ptr): the Locals the loop `for (Local* l : ptr->locals_)` visits
CollectedLocals(m) == locals_[m]

\* Collect(ptr): takes ptr->lock_; result is empty.
LfmCollectBegin(m) ==
  /\ collecting = "none"
  /\ lock_[m] = "free"
  /\ lock_' = [lock_ EXCEPT ![m] = "Collect"]
  /\ collecting' = m
  /\ todo' = CollectedLocals(m)
  /\ result' = {}
  /\ afterJoin' = \A t \in Threads : Joined(t)
  /\ repeating' = (quiet = m)
  /\ quiet' = m
  /\ UNCHANGED <<localVars, locals_, threadState, threadUpdates, emplacing,
                 lfmHistory>>

\* Collect(ptr), in the loop: result.push_back(l->Collect()), for any l not
\* visited yet (the order of a flat_hash_set is unspecified).
LfmCollectLocal(l) ==
  /\ collecting # "none" /\ l \in todo
  /\ locals[l].failed = "none"
  /\ locals' = [locals EXCEPT ![l] = LocalCollect(@)]
  /\ localHistory' = [localHistory EXCEPT
                        ![l].collectedAll = @ \o LocalCollected(locals[l])]
  /\ todo' = todo \ {l}
  /\ result' = result \cup {<<l, LocalCollected(locals[l])>>}
  /\ UNCHANGED <<locals_, lock_, threadState, threadUpdates, emplacing,
                 collecting, afterJoin, quiet, repeating, lfmHistory>>

\* Collect(ptr) returns result and releases ptr->lock_.
LfmCollectEnd ==
  /\ collecting # "none" /\ todo = {}
  /\ lock_' = [lock_ EXCEPT ![collecting] = "free"]
  /\ collecting' = "none"
  /\ lfmHistory' =
       [metric |-> collecting,
        result |-> result,
        updaters |-> {t \in Threads : locals[<<t, collecting>>].state # "none"},
        live |-> {t \in Threads : locals[<<t, collecting>>].state = "live"},
        afterJoin |-> afterJoin,
        repeated |-> repeating /\ quiet = collecting]
  /\ result' = {}
  /\ afterJoin' = FALSE
  /\ repeating' = FALSE
  /\ UNCHANGED <<localVars, locals_, threadState, threadUpdates, emplacing,
                 todo, quiet>>

NextFanIn ==
  \/ \E t \in Threads, m \in Metrics :
       LfmEmplace(t, m) /\ UNCHANGED <<exchVars, rcuVars, laterVars>>
  \/ \E t \in Threads, m \in Metrics :
       LfmUpdate(t, m) /\ UNCHANGED <<exchVars, rcuVars, laterVars>>
  \/ \E t \in Threads : LfmThreadExit(t) /\ UNCHANGED <<exchVars, rcuVars, laterVars>>
  \/ \E t \in Threads, m \in Metrics :
       LfmDestroy(t, m) /\ UNCHANGED <<exchVars, rcuVars, laterVars>>
  \/ \E m \in Metrics : LfmCollectBegin(m) /\ UNCHANGED <<exchVars, rcuVars, laterVars>>
  \/ \E l \in Threads \X Metrics :
       LfmCollectLocal(l) /\ UNCHANGED <<exchVars, rcuVars, laterVars>>
  \/ LfmCollectEnd /\ UNCHANGED <<exchVars, rcuVars, laterVars>>

\* ------------------------------------------------------------------------
\* refptr::Refcount: threads that hold references copy them (Inc), pass
\* them to each other and release them (Dec). The object is destroyed by
\* the caller whose Dec returns true.

\* constexpr Refcount() : count_{1}; the creating thread holds the reference
InitRefcount ==
  /\ count_ = 1
  /\ held = [t \in Holders |-> IF t = "t1" THEN 1 ELSE 0]
  /\ decpc = [t \in Holders |-> "idle"]
  /\ incs = 0
  /\ lastDec = [calls |-> 0, shortcut |-> FALSE, sole |-> FALSE]

\* The references held by the threads of ts
RECURSIVE HeldBy(_)
HeldBy(ts) ==
  IF ts = {} THEN 0
  ELSE LET t == CHOOSE x \in ts : TRUE IN held[t] + HeldBy(ts \ {t})

\* Inc() by a thread copying a reference it holds; the copy is its own or is
\* given to another thread: count_.fetch_add(1).
Inc(t, to) ==
  /\ held[t] > 0 /\ decpc[t] = "idle"
  /\ incs < MaxIncs
  /\ count_' = count_ + 1
  /\ held' = [held EXCEPT ![to] = @ + 1]
  /\ incs' = incs + 1
  /\ UNCHANGED <<decpc, lastDec>>

\* A bug: IsOne() also holds of a counter of two.
IsOneOrTwo == count_ \in {1, 2}

\* IsOne(): count_.load() == 1
IsOne == count_ = 1

\* A bug: Dec reports the last reference when one more is left.
WasLastOfTwo(refcount) == refcount = 2

\* Dec: return refcount == 1, of the value fetch_sub returned
WasLast(refcount) == refcount = 1

\* The history of a Dec call that returns `last`.
Returned(last, short) ==
  IF last
    THEN [calls |-> lastDec.calls + 1,
          shortcut |-> lastDec.shortcut \/ short,
          sole |-> IF short THEN HeldBy(Holders) = 1 ELSE lastDec.sole]
    ELSE lastDec

\* Dec(expect_one = true), up to IsOne(): returns true if it holds,
\* without decrementing.
DecExpectOne(t) ==
  /\ held[t] > 0 /\ decpc[t] = "idle"
  /\ IF IsOne
       THEN /\ held' = [held EXCEPT ![t] = @ - 1]
            /\ lastDec' = Returned(TRUE, TRUE)
            /\ UNCHANGED decpc
       ELSE /\ decpc' = [decpc EXCEPT ![t] = "fetch_sub"]
            /\ UNCHANGED <<held, lastDec>>
  /\ UNCHANGED <<count_, incs>>

\* Dec(expect_one = false), or Dec(true) after IsOne() was false:
\* refcount = count_.fetch_sub(1); return refcount == 1.
DecFetchSub(t) ==
  /\ held[t] > 0
  /\ count_' = count_ - 1
  /\ held' = [held EXCEPT ![t] = @ - 1]
  /\ decpc' = [decpc EXCEPT ![t] = "idle"]
  /\ lastDec' = Returned(WasLast(count_), FALSE)
  /\ UNCHANGED incs

NextRefcount ==
  \/ \E t \in Holders, to \in Holders :
       Inc(t, to) /\ UNCHANGED otherThanRefcount
  \/ \E t \in Holders :
       DecExpectOne(t) /\ UNCHANGED otherThanRefcount
  \/ \E t \in Holders :
       DecFetchSub(t) /\ UNCHANGED otherThanRefcount

\* ------------------------------------------------------------------------
\* CopyRcu<T>: actions.

\* Local3StateRcu(value): Local3StateRcu(value, value, value)
NewLocal3StateRcu(v) ==
  [next_read_index_ |-> kNullIndex,
   read_ |-> [index |-> 0],
   update_ |-> [index |-> 1, next_index |-> 0],
   values_ |-> [c \in Cells |-> v]]

NoView ==
  [state |-> "none", local_rcu |-> NewLocal3StateRcu(NoValue),
   snapshot_depth_ |-> 0]

NoCopyRet ==
  [kind |-> "none", asked |-> [eq |-> TRUE, e |-> NoValue],
   previous |-> NoValue, given |-> NoValue, value |-> NoValue]

NoViewHistory ==
  [owed |-> 0, cell |-> 0, value |-> NoValue, last |-> 0]

NotUpdating ==
  [kind |-> "none", asked |-> [eq |-> TRUE, e |-> NoValue],
   value |-> NoValue, todo |-> {}]

\* CopyRcu(): value_(), no locals.
InitCopyRcu ==
  /\ cr_value_ = InitialValue
  /\ cr_lock_ = NoWriter
  /\ cr_locals_ = {}
  /\ views = [v \in Views |-> NoView]
  /\ updating = NotUpdating
  /\ copyRet = NoCopyRet
  /\ viewHistory = [v \in Views |-> NoViewHistory]

\* A bug: a View starts from a default-constructed T.
RegisteredDefault == InitialValue

\* RegisterLocked: locals_.insert(&local); return value_.
RegisterLocked == cr_value_

\* A bug: the MutexLock is released as soon as the View is registered.
ConstructorHoldsNothing(v) == NoWriter

\* The holder of lock_ while the View v is constructed: the temporary
\* absl::MutexLock(&rcu.lock_) lives until local_ is initialized.
ConstructorHolds(v) == v

\* View(rcu), up to the call in Local's initializer list: lock_ is
\* acquired and RegisterLocked runs locals_.insert(&local). local_rcu is
\* not constructed yet.
ConstructView(v) ==
  /\ views[v].state = "none"
  /\ cr_lock_ = NoWriter
  /\ cr_lock_' = ConstructorHolds(v)
  /\ cr_locals_' = cr_locals_ \cup {v}
  /\ views' = [views EXCEPT ![v].state = "constructing"]
  /\ UNCHANGED <<cr_value_, updating, copyRet, viewHistory>>

\* View(rcu), the rest: local_rcu is constructed from the value
\* RegisterLocked returned, and the MutexLock is destroyed.
ViewConstructed(v) ==
  /\ views[v].state = "constructing"
  /\ cr_lock_ = ConstructorHolds(v)
  /\ cr_lock_' = NoWriter
  /\ views' = [views EXCEPT ![v] =
                 [state |-> "live",
                  local_rcu |-> NewLocal3StateRcu(RegisterLocked),
                  snapshot_depth_ |-> 0]]
  /\ UNCHANGED <<cr_value_, cr_locals_, updating, copyRet, viewHistory>>

\* ~Local: rcu_.Unregister(*this), which erases it under lock_. No Snapshot
\* of the View is alive.
DestroyView(v) ==
  /\ views[v].state = "live"
  /\ views[v].snapshot_depth_ = 0
  /\ cr_lock_ = NoWriter
  /\ cr_locals_' = cr_locals_ \ {v}
  /\ views' = [views EXCEPT ![v].state = "unregistered"]
  /\ viewHistory' = [viewHistory EXCEPT ![v] = NoViewHistory]
  /\ UNCHANGED <<cr_value_, cr_lock_, updating, copyRet>>

\* ~Local, after its body: the member local_rcu is destroyed.
ViewDestroyed(v) ==
  /\ views[v].state = "unregistered"
  /\ views' = [views EXCEPT ![v] = [NoView EXCEPT !.state = "gone"]]
  /\ UNCHANGED <<cr_value_, cr_lock_, cr_locals_, updating, copyRet,
                 viewHistory>>

\* Local3StateRcu::TryRead: exchange kNullIndex into next_read_index_ and
\* advance read_.index to what it held.
LocalTryRead(rcu) ==
  IF rcu.next_read_index_ # kNullIndex
    THEN [rcu EXCEPT !.read_.index = rcu.next_read_index_,
                     !.next_read_index_ = kNullIndex]
    ELSE rcu

\* A bug: every Read fetches a fresh value.
OutermostAlways(depth) == TRUE

\* snapshot_depth_++ == 0
Outermost(depth) == depth = 0

\* View::Read
ViewRead(v) ==
  /\ views[v].state = "live"
  /\ views[v].snapshot_depth_ < MaxDepth
  /\ LET rcu == IF Outermost(views[v].snapshot_depth_)
                  THEN LocalTryRead(views[v].local_rcu)
                  ELSE views[v].local_rcu
     IN /\ views' = [views EXCEPT ![v].local_rcu = rcu,
                                  ![v].snapshot_depth_ = @ + 1]
        /\ viewHistory' = [viewHistory EXCEPT ![v] =
             IF views[v].snapshot_depth_ = 0
               THEN [owed |-> cr_value_,
                     cell |-> rcu.read_.index,
                     value |-> rcu.values_[rcu.read_.index],
                     last |-> rcu.read_.index]
               ELSE [@ EXCEPT !.last = rcu.read_.index]]
  /\ UNCHANGED <<cr_value_, cr_lock_, cr_locals_, updating, copyRet>>

\* ~Snapshot: SnapshotDeleter decrements snapshot_depth_.
SnapshotRelease(v) ==
  /\ views[v].state = "live"
  /\ views[v].snapshot_depth_ > 0
  /\ views' = [views EXCEPT ![v].snapshot_depth_ = @ - 1]
  /\ viewHistory' = [viewHistory EXCEPT ![v] =
                       IF views[v].snapshot_depth_ = 1
                         THEN NoViewHistory ELSE @]
  /\ UNCHANGED <<cr_value_, cr_lock_, cr_locals_, updating, copyRet>>

\* The values passed to Update and UpdateIf are all different: the n-th
\* call that acquires lock_ passes n (lock_ is held, so that value_ is what
\* the call before it installed).
FreshValue == cr_value_ + 1

\* The predicates passed to UpdateIf: the current value is (is not) e.
Preds == [eq : BOOLEAN, e : {InitialValue}]

\* A bug: UpdateIf does not look at the predicate.
HoldsAlways(p, previous) == TRUE

\* pred(value_)
Holds(p, previous) == p.eq <=> (previous = p.e)

\* Update, UpdateIf with a predicate that holds: lock_ acquired, about to
\* run UpdateLocked(value).
UpdateLock(w, kind, p) ==
  /\ cr_lock_ = NoWriter
  /\ cr_value_ < MaxCopyUpdates
  /\ kind = "UpdateIf" => Holds(p, cr_value_)
  /\ cr_lock_' = w
  /\ updating' = [kind |-> kind, asked |-> p, value |-> FreshValue,
                  todo |-> cr_locals_]
  /\ UNCHANGED <<cr_value_, cr_locals_, views, copyRet, viewHistory>>

\* UpdateIf with a predicate that does not hold: std::nullopt.
UpdateIfRejected(w, p) ==
  /\ cr_lock_ = NoWriter
  /\ ~Holds(p, cr_value_)
  /\ copyRet' = [kind |-> "UpdateIf", asked |-> p, previous |-> cr_value_,
                  given |-> FreshValue, value |-> NoValue]
  /\ UNCHANGED <<cr_value_, cr_lock_, cr_locals_, views, updating,
                 viewHistory>>

\* update_.RotateAfterNext(): next_index <- index <- old read index
RotatedAfterNext(upd) ==
  [index |-> (0 + 1 + 2) - (upd.index + upd.next_index),
   next_index |-> upd.index]

\* Local3StateRcu::ForceUpdate: exchange update_.index into
\* next_read_index_; rotate when the Reader took the previous value, else
\* take back the cell that was in flight.
ForceUpdated(rcu) ==
  LET old == rcu.next_read_index_
  IN [rcu EXCEPT
        !.next_read_index_ = rcu.update_.index,
        !.update_ = IF old = kNullIndex
                      THEN RotatedAfterNext(rcu.update_)
                      ELSE [index |-> old,
                            next_index |-> rcu.update_.index]]

\* local_rcu.Update() = value; local_rcu.ForceUpdate()
LocalForceUpdate(rcu, v) ==
  ForceUpdated([rcu EXCEPT !.values_[rcu.update_.index] = v])

\* UpdateLocked: one turn of the loop over locals_.
UpdateLocal(w, v) ==
  /\ cr_lock_ = w
  /\ v \in updating.todo
  /\ views' = [views EXCEPT ![v].local_rcu =
                 LocalForceUpdate(@, updating.value)]
  /\ updating' = [updating EXCEPT !.todo = @ \ {v}]
  /\ UNCHANGED <<cr_value_, cr_lock_, cr_locals_, copyRet, viewHistory>>

\* A bug: UpdateLocked returns the value it installed.
UpdateLockedResultNew == updating.value

\* UpdateLocked: std::swap(value_, value); return value.
UpdateLockedResult == cr_value_

\* UpdateLocked after the loop, and the release of lock_.
UpdateUnlock(w) ==
  /\ cr_lock_ = w
  /\ updating.todo = {}
  /\ cr_value_' = updating.value
  /\ cr_lock_' = NoWriter
  /\ updating' = NotUpdating
  /\ copyRet' = [kind |-> updating.kind, asked |-> updating.asked,
                  previous |-> cr_value_, given |-> updating.value,
                  value |-> UpdateLockedResult]
  /\ UNCHANGED <<cr_locals_, views, viewHistory>>

NextCopyRcu ==
  \/ \E v \in Views :
       ConstructView(v) /\ UNCHANGED otherThanCopyRcu
  \/ \E v \in Views :
       ViewConstructed(v) /\ UNCHANGED otherThanCopyRcu
  \/ \E v \in Views :
       DestroyView(v) /\ UNCHANGED otherThanCopyRcu
  \/ \E v \in Views :
       ViewDestroyed(v) /\ UNCHANGED otherThanCopyRcu
  \/ \E v \in Views :
       ViewRead(v) /\ UNCHANGED otherThanCopyRcu
  \/ \E v \in Views :
       SnapshotRelease(v) /\ UNCHANGED otherThanCopyRcu
  \/ \E w \in Writers :
       UpdateLock(w, "Update", NoCopyRet.asked) /\ UNCHANGED otherThanCopyRcu
  \/ \E w \in Writers, p \in Preds :
       UpdateLock(w, "UpdateIf", p) /\ UNCHANGED otherThanCopyRcu
  \/ \E w \in Writers, p \in Preds :
       UpdateIfRejected(w, p) /\ UNCHANGED otherThanCopyRcu
  \/ \E w \in Writers, v \in Views :
       UpdateLocal(w, v) /\ UNCHANGED otherThanCopyRcu
  \/ \E w \in Writers :
       UpdateUnlock(w) /\ UNCHANGED otherThanCopyRcu

\* ------------------------------------------------------------------------
\* ThreadLocalDelayed<L> and ThreadLocalWeak<L>: actions.

NotPruning ==
  [pc |-> "idle", todo |-> {}, pos |-> 0, kept |-> <<>>,
   current |-> {}, abandoned |-> {}]

NoTry == [kind |-> "none", instance |-> NoInstance, inserted |-> FALSE]

NoPruneResult ==
  [kind |-> "none", current |-> {}, abandoned |-> {}, began |-> {},
   goneAtBegin |-> {}, goneAtReturn |-> {}, handedBefore |-> {},
   after |-> {}]

\* The elements of a vector
Range(seq) == {seq[k] : k \in DOMAIN seq}

\* No central object yet; the threads' maps are empty.
InitThreadLocal ==
  /\ tl_kind = "none"
  /\ map_ptr = [t \in Threads |-> NoInstance]
  /\ per_thread_ = <<>>
  /\ abandoned_ = [i \in Instances |-> FALSE]
  /\ tl_created = 0
  /\ prune = NotPruning
  /\ callerHolds = {}
  /\ destroyed = {}
  /\ lastTry = [t \in Threads |-> NoTry]
  /\ handedOver = {}
  /\ lastResult = NoPruneResult

\* ThreadLocalDelayed(), ThreadLocalWeak()
ConstructThreadLocal(kind) ==
  /\ tl_kind = "none"
  /\ tl_kind' = kind
  /\ UNCHANGED <<map_ptr, per_thread_, abandoned_, tl_created, prune,
                 callerHolds, destroyed, lastTry, handedOver, lastResult>>

\* A bug: try_emplace never finds the thread's instance.
VacantAlways(t) == TRUE

\* try_emplace: map_ptr == nullptr (|| map_ptr->abandoned(), delayed)
Vacant(t) ==
  IF map_ptr[t] = NoInstance
    THEN TRUE
    ELSE tl_kind = "delayed" /\ abandoned_[map_ptr[t]]

\* try_emplace of either class when the thread has no instance: a new one
\* is added to per_thread_ under the mutex and stored in the thread's map.
\* The deleter of the entry replaced (delayed) is MarkAbandoned.
TryEmplaceNew(t) ==
  /\ tl_kind # "none"
  /\ Vacant(t)
  /\ prune.pc = "idle"
  /\ tl_created < MaxInstances
  /\ tl_created' = tl_created + 1
  /\ per_thread_' = Append(per_thread_, tl_created + 1)
  /\ map_ptr' = [map_ptr EXCEPT ![t] = tl_created + 1]
  /\ abandoned_' = IF tl_kind = "delayed" /\ map_ptr[t] # NoInstance
                     THEN [abandoned_ EXCEPT ![map_ptr[t]] = TRUE]
                     ELSE abandoned_
  /\ destroyed' = IF /\ tl_kind = "weak"
                     /\ map_ptr[t] # NoInstance
                     /\ map_ptr[t] \notin callerHolds
                    THEN destroyed \cup {map_ptr[t]}
                    ELSE destroyed
  /\ lastTry' = [lastTry EXCEPT ![t] =
                   [kind |-> "try_emplace", instance |-> tl_created + 1,
                    inserted |-> TRUE]]
  /\ UNCHANGED <<tl_kind, prune, callerHolds, handedOver, lastResult>>

\* try_emplace of either class when the thread has an instance.
TryEmplaceExisting(t) ==
  /\ tl_kind # "none"
  /\ ~Vacant(t)
  /\ lastTry' = [lastTry EXCEPT ![t] =
                   [kind |-> "try_emplace", instance |-> map_ptr[t],
                    inserted |-> FALSE]]
  /\ UNCHANGED <<tl_kind, map_ptr, per_thread_, abandoned_, tl_created,
                 prune, callerHolds, destroyed, handedOver, lastResult>>

\* The thread's shared_ptr was the last strong reference to its instance.
Released(t) ==
  IF map_ptr[t] # NoInstance /\ map_ptr[t] \notin callerHolds
    THEN {map_ptr[t]} ELSE {}

\* ThreadLocalWeak::erase: map.erase(it) if the key is found.
WeakErase(t) ==
  /\ tl_kind = "weak"
  /\ map_ptr' = [map_ptr EXCEPT ![t] = NoInstance]
  /\ destroyed' = destroyed \cup Released(t)
  /\ lastTry' = [lastTry EXCEPT ![t] =
                   [kind |-> "erase", instance |-> map_ptr[t],
                    inserted |-> FALSE]]
  /\ UNCHANGED <<tl_kind, per_thread_, abandoned_, tl_created, prune,
                 callerHolds, handedOver, lastResult>>

\* A thread that has an instance terminates: its thread_local map is
\* destroyed, which runs MarkAbandoned (delayed) or drops the shared_ptr
\* (weak). Another thread starts later in its place with an empty map.
ThreadExit(t) ==
  /\ tl_kind # "none"
  /\ map_ptr[t] # NoInstance
  /\ map_ptr' = [map_ptr EXCEPT ![t] = NoInstance]
  /\ abandoned_' = IF tl_kind = "delayed"
                     THEN [abandoned_ EXCEPT ![map_ptr[t]] = TRUE]
                     ELSE abandoned_
  /\ destroyed' = IF tl_kind = "weak"
                    THEN destroyed \cup Released(t) ELSE destroyed
  /\ lastTry' = [lastTry EXCEPT ![t] = NoTry]
  /\ UNCHANGED <<tl_kind, per_thread_, tl_created, prune, callerHolds,
                 handedOver, lastResult>>

\* PruneAndList of either class: the mutex acquired.
PruneBegin ==
  /\ tl_kind # "none"
  /\ prune.pc = "idle"
  /\ prune' = [NotPruning EXCEPT
                 !.pc = IF tl_kind = "delayed" THEN "partition" ELSE "prune",
                 !.todo = Range(per_thread_),
                 !.pos = 1]
  /\ lastResult' = [NoPruneResult EXCEPT
                      !.kind = "running",
                      !.began = Range(per_thread_),
                      !.goneAtBegin =
                        IF tl_kind = "delayed"
                          THEN {i \in Range(per_thread_) : abandoned_[i]}
                          ELSE Range(per_thread_) \cap destroyed,
                      !.handedBefore = handedOver]
  /\ UNCHANGED <<tl_kind, map_ptr, per_thread_, abandoned_, tl_created,
                 callerHolds, destroyed, lastTry, handedOver>>

\* A bug: PruneAndList takes every instance for an abandoned one.
IsAbandonedAlways(i) == TRUE

\* i->abandoned()
IsAbandoned(i) == abandoned_[i]

\* ThreadLocalDelayed::PruneAndList: std::partition applies its predicate
\* to one element.
DelayedPartition(i) ==
  /\ prune.pc = "partition"
  /\ i \in prune.todo
  /\ prune' = [prune EXCEPT
                 !.todo = @ \ {i},
                 !.abandoned = IF IsAbandoned(i) THEN @ \cup {i} ELSE @,
                 !.current = IF IsAbandoned(i) THEN @ ELSE @ \cup {i}]
  /\ UNCHANGED <<tl_kind, map_ptr, per_thread_, abandoned_, tl_created,
                 callerHolds, destroyed, lastTry, handedOver, lastResult>>

\* The vector without the elements of a set
Without(seq, gone) == SelectSeq(seq, LAMBDA i : i \notin gone)

\* ThreadLocalDelayed::PruneAndList: the abandoned instances moved to the
\* result, pointers to the others copied to it; the mutex released.
DelayedPruneEnd ==
  /\ prune.pc = "partition"
  /\ prune.todo = {}
  /\ per_thread_' = Without(per_thread_, prune.abandoned)
  /\ callerHolds' = callerHolds \cup prune.abandoned
  /\ handedOver' = handedOver \cup prune.abandoned
  /\ prune' = NotPruning
  /\ lastResult' = [lastResult EXCEPT
                      !.kind = "delayed",
                      !.current = prune.current,
                      !.abandoned = prune.abandoned,
                      !.goneAtReturn = {i \in Instances : abandoned_[i]},
                      !.after = Range(per_thread_')]
  /\ UNCHANGED <<tl_kind, map_ptr, abandoned_, tl_created, destroyed,
                 lastTry>>

\* The caller of PruneAndList destroys a unique_ptr of `abandoned`.
DestroyAbandoned(i) ==
  /\ tl_kind = "delayed"
  /\ i \in callerHolds
  /\ callerHolds' = callerHolds \ {i}
  /\ destroyed' = destroyed \cup {i}
  /\ UNCHANGED <<tl_kind, map_ptr, per_thread_, abandoned_, tl_created,
                 prune, lastTry, handedOver, lastResult>>

\* weak_ptr::expired(): no strong reference is left.
Expired(i) == i \in destroyed

\* LocalsList::PruneInternal: remove_if applies ptr.expired() to the next
\* element; the erase after the last one.
WeakPruneStep ==
  /\ prune.pc = "prune"
  /\ IF prune.pos <= Len(per_thread_)
       THEN /\ prune' = [prune EXCEPT
                           !.pos = @ + 1,
                           !.kept = IF Expired(per_thread_[prune.pos])
                                      THEN @
                                      ELSE Append(@, per_thread_[prune.pos])]
            /\ UNCHANGED per_thread_
       ELSE /\ per_thread_' = prune.kept
            /\ prune' = [prune EXCEPT !.pc = "list", !.pos = 1]
  /\ UNCHANGED <<tl_kind, map_ptr, abandoned_, tl_created, callerHolds,
                 destroyed, lastTry, handedOver, lastResult>>

\* A bug: lock() revives an instance that was destroyed.
LockedAlways(i) == TRUE

\* weak_ptr::lock() != nullptr: a strong reference was there to copy.
Locked(i) == i \notin destroyed

\* LocalsList::PruneAndList: ptr.lock() of the next element.
WeakListStep ==
  /\ prune.pc = "list"
  /\ prune.pos <= Len(per_thread_)
  /\ prune' = [prune EXCEPT
                 !.pos = @ + 1,
                 !.current = IF Locked(per_thread_[prune.pos])
                               THEN @ \cup {per_thread_[prune.pos]}
                               ELSE @]
  /\ callerHolds' = IF Locked(per_thread_[prune.pos])
                      THEN callerHolds \cup {per_thread_[prune.pos]}
                      ELSE callerHolds
  /\ UNCHANGED <<tl_kind, map_ptr, per_thread_, abandoned_, tl_created,
                 destroyed, lastTry, handedOver, lastResult>>

\* LocalsList::PruneAndList: return result; the mutex released.
WeakPruneEnd ==
  /\ prune.pc = "list"
  /\ prune.pos > Len(per_thread_)
  /\ prune' = NotPruning
  /\ lastResult' = [lastResult EXCEPT
                      !.kind = "weak",
                      !.current = prune.current,
                      !.goneAtReturn = destroyed,
                      !.after = Range(per_thread_)]
  /\ UNCHANGED <<tl_kind, map_ptr, per_thread_, abandoned_, tl_created,
                 callerHolds, destroyed, lastTry, handedOver>>

\* The last shared_ptr to an instance that callers of PruneAndList hold
\* is dropped.
DropReference(i) ==
  /\ tl_kind = "weak"
  /\ i \in callerHolds
  /\ i \notin prune.current
  /\ callerHolds' = callerHolds \ {i}
  /\ destroyed' = IF \E t \in Threads : map_ptr[t] = i
                    THEN destroyed ELSE destroyed \cup {i}
  /\ UNCHANGED <<tl_kind, map_ptr, per_thread_, abandoned_, tl_created,
                 prune, lastTry, handedOver, lastResult>>

NextThreadLocal ==
  \/ \E kind \in {"delayed", "weak"} :
       ConstructThreadLocal(kind) /\ UNCHANGED otherThanThreadLocal
  \/ \E t \in Threads :
       TryEmplaceNew(t) /\ UNCHANGED otherThanThreadLocal
  \/ \E t \in Threads :
       TryEmplaceExisting(t) /\ UNCHANGED otherThanThreadLocal
  \/ \E t \in Threads :
       WeakErase(t) /\ UNCHANGED otherThanThreadLocal
  \/ \E t \in Threads :
       ThreadExit(t) /\ UNCHANGED otherThanThreadLocal
  \/ PruneBegin /\ UNCHANGED otherThanThreadLocal
  \/ \E i \in Instances :
       DelayedPartition(i) /\ UNCHANGED otherThanThreadLocal
  \/ DelayedPruneEnd /\ UNCHANGED otherThanThreadLocal
  \/ \E i \in Instances :
       DestroyAbandoned(i) /\ UNCHANGED otherThanThreadLocal
  \/ WeakPruneStep /\ UNCHANGED otherThanThreadLocal
  \/ WeakListStep /\ UNCHANGED otherThanThreadLocal
  \/ WeakPruneEnd /\ UNCHANGED otherThanThreadLocal
  \/ \E i \in Instances :
       DropReference(i) /\ UNCHANGED otherThanThreadLocal

\* ------------------------------------------------------------------------
\* ReverseRcu<T>: actions.

\* T()
ZeroT == [k \in ValueIds |-> 0]

\* a += b
Plus(a, b) == [k \in ValueIds |-> a[k] + b[k]]

\* A T that holds the k-th value written
Unit(k) == [j \in ValueIds |-> IF j = k THEN 1 ELSE 0]

NoRLocal ==
  [state |-> "none", snapshot_depth_ |-> 0,
   local_rcu_ |-> NewLocal3StateRcu(ZeroT)]

\* ReverseRcu(): lock_(), value_(), threads_()
InitReverseRcu ==
  /\ rr_value_ = ZeroT
  /\ rr_threads_ = {}
  /\ rlocals = [l \in RLocals |-> NoRLocal]
  /\ rcollect = [pc |-> "idle", todo |-> {}]
  /\ rr_written = 0
  /\ writtenBy = [k \in ValueIds |-> "none"]
  /\ collectedSum = ZeroT
  /\ settled = {}

\* Local(rcu): local_rcu_(), local_rcu_.ForceUpdate(), and under lock_
\* threads_.insert(this).
ConstructLocal(l) ==
  /\ rlocals[l].state = "none"
  /\ rcollect.pc = "idle"
  /\ rlocals' = [rlocals EXCEPT ![l] =
                   [state |-> "live", snapshot_depth_ |-> 0,
                    local_rcu_ |-> ForceUpdated(NewLocal3StateRcu(ZeroT))]]
  /\ rr_threads_' = rr_threads_ \cup {l}
  /\ UNCHANGED <<rr_value_, rcollect, rr_written, writtenBy, collectedSum,
                 settled>>

\* Local::Write: Snapshot(*this) increments snapshot_depth_.
LocalWrite(l) ==
  /\ rlocals[l].state = "live"
  /\ rlocals[l].snapshot_depth_ < MaxSnapshots
  /\ rlocals' = [rlocals EXCEPT ![l].snapshot_depth_ = @ + 1]
  /\ UNCHANGED <<rr_value_, rr_threads_, rcollect, rr_written, writtenBy,
                 collectedSum, settled>>

\* *snapshot += v, with v the next value: local_rcu_.Read() is the cell
\* written to.
SnapshotAdd(l) ==
  /\ rlocals[l].state = "live"
  /\ rlocals[l].snapshot_depth_ > 0
  /\ rr_written < MaxRcuWrites
  /\ rr_written' = rr_written + 1
  /\ writtenBy' = [writtenBy EXCEPT ![rr_written + 1] = l]
  /\ rlocals' = [rlocals EXCEPT
       ![l].local_rcu_.values_[rlocals[l].local_rcu_.read_.index] =
         Plus(@, Unit(rr_written + 1))]
  /\ UNCHANGED <<rr_value_, rr_threads_, rcollect, collectedSum, settled>>

\* ~Snapshot: if (--snapshot_depth_ == 0) local_rcu_.TryRead().
SnapshotDestroy(l) ==
  /\ rlocals[l].state = "live"
  /\ rlocals[l].snapshot_depth_ > 0
  /\ rlocals' = [rlocals EXCEPT
       ![l].snapshot_depth_ = @ - 1,
       ![l].local_rcu_ = IF rlocals[l].snapshot_depth_ = 1
                           THEN LocalTryRead(@) ELSE @]
  /\ UNCHANGED <<rr_value_, rr_threads_, rcollect, rr_written, writtenBy,
                 collectedSum, settled>>

\* Local::Collect: local_rcu_.ForceUpdate(), then
\* absl::exchange(local_rcu_.Update(), T()); the Local afterwards.
RLocalCollected(rcu) ==
  [ForceUpdated(rcu) EXCEPT !.values_[ForceUpdated(rcu).update_.index] = ZeroT]

\* Local::Collect: the value it returns.
RLocalCollect(rcu) ==
  ForceUpdated(rcu).values_[ForceUpdated(rcu).update_.index]

\* ~Local: under lock_, value_ += Collect() and threads_.erase(this); no
\* Snapshot of the Local is alive. The Local3StateRcu is destroyed with it.
DestroyLocal(l) ==
  /\ rlocals[l].state = "live"
  /\ rlocals[l].snapshot_depth_ = 0
  /\ rcollect.pc = "idle"
  /\ rr_value_' = Plus(rr_value_, RLocalCollect(rlocals[l].local_rcu_))
  /\ rr_threads_' = rr_threads_ \ {l}
  /\ rlocals' = [rlocals EXCEPT ![l] = [NoRLocal EXCEPT !.state = "gone"]]
  /\ UNCHANGED <<rcollect, rr_written, writtenBy, collectedSum, settled>>

\* ReverseRcu::Collect: lock_ acquired.
CollectLock ==
  /\ rcollect.pc = "idle"
  /\ rcollect' = [pc |-> "collecting", todo |-> rr_threads_]
  /\ settled' = {l \in RLocals : rlocals[l].state = "gone"}
  /\ UNCHANGED <<rr_value_, rr_threads_, rlocals, rr_written, writtenBy,
                 collectedSum>>

\* ReverseRcu::Collect: value_ += thread->Collect() for one Local.
CollectThread(l) ==
  /\ rcollect.pc = "collecting"
  /\ l \in rcollect.todo
  /\ rr_value_' = Plus(rr_value_, RLocalCollect(rlocals[l].local_rcu_))
  /\ rlocals' = [rlocals EXCEPT
                   ![l].local_rcu_ = RLocalCollected(@)]
  /\ rcollect' = [rcollect EXCEPT !.todo = @ \ {l}]
  /\ UNCHANGED <<rr_threads_, rr_written, writtenBy, collectedSum, settled>>

\* ReverseRcu::Collect: return absl::exchange(value_, T()); lock_ released.
CollectReturn ==
  /\ rcollect.pc = "collecting"
  /\ rcollect.todo = {}
  /\ collectedSum' = Plus(collectedSum, rr_value_)
  /\ rr_value_' = ZeroT
  /\ rcollect' = [pc |-> "idle", todo |-> {}]
  /\ UNCHANGED <<rr_threads_, rlocals, rr_written, writtenBy, settled>>

NextReverseRcu ==
  \/ \E l \in RLocals :
       ConstructLocal(l) /\ UNCHANGED otherThanReverseRcu
  \/ \E l \in RLocals :
       LocalWrite(l) /\ UNCHANGED otherThanReverseRcu
  \/ \E l \in RLocals :
       SnapshotAdd(l) /\ UNCHANGED otherThanReverseRcu
  \/ \E l \in RLocals :
       SnapshotDestroy(l) /\ UNCHANGED otherThanReverseRcu
  \/ \E l \in RLocals :
       DestroyLocal(l) /\ UNCHANGED otherThanReverseRcu
  \/ CollectLock /\ UNCHANGED otherThanReverseRcu
  \/ \E l \in RLocals :
       CollectThread(l) /\ UNCHANGED otherThanReverseRcu
  \/ CollectReturn /\ UNCHANGED otherThanReverseRcu

\* ------------------------------------------------------------------------
\* The specifications: the two threads of one TwoThreadConcurrent, the
\* Reader and the Updater of one Local3StateRcu, and the updating and the
\* collecting thread of one LocalLockFreeMetric.

\* All objects constructed.
\* TwoThreadConcurrent<C, D> ttc(C{}) and the other components
Init ==
  /\ uniDi = FALSE
  /\ InitExchange
  /\ InitRcu
  /\ InitMetric
  /\ InitRefcount
  /\ InitCopyRcu
  /\ InitThreadLocal
  /\ InitReverseRcu

\* UniDiChannel<M, MOp> channel: BiDiChannel() = default
InitChannel ==
  /\ uniDi = TRUE
  /\ InitExchange
  /\ InitRcu
  /\ InitMetric
  /\ InitRefcount
  /\ InitCopyRcu
  /\ InitThreadLocal
  /\ InitReverseRcu

\* Init with the payload types of the TwoThreadConcurrent fixed.
InitTrivialPayload ==
  /\ Init
  /\ ~moveEmptiesC
  /\ ~moveEmptiesD

SpecExchange == Init /\ [][NextExchange]_vars

SpecChannel == InitChannel /\ [][NextChannel]_vars

SpecRcu == InitTrivialPayload /\ [][NextRcu]_vars

\* The two-thread primitives, each on its own: a program that uses a
\* TwoThreadConcurrent (over a Local3StateExchange) or a Local3StateRcu,
\* the other object staying as constructed.
NextPrimitives ==
  \/ InitRcu /\ NextExchange
  \/ InitExchange /\ NextRcu

SpecPrimitives == InitTrivialPayload /\ [][NextPrimitives]_vars

SpecMetric == InitTrivialPayload /\ [][NextMetric]_vars
SpecFanIn == InitTrivialPayload /\ [][NextFanIn]_vars
SpecRefcount == InitTrivialPayload /\ [][NextRefcount]_vars
SpecCopyRcu == InitTrivialPayload /\ [][NextCopyRcu]_vars
SpecThreadLocal == InitTrivialPayload /\ [][NextThreadLocal]_vars
SpecReverseRcu == InitTrivialPayload /\ [][NextReverseRcu]_vars

\* ------------------------------------------------------------------------
\* Properties of Local3StateExchange and TwoThreadConcurrent (SpecExchange).

\* The cell a side owns: a side that has written passing_ and not yet stored
\* ctx.index owns the cell it just received.
Owned(s) ==
  IF pc[s] = "store" THEN MaskAnd(received[s], kIndexMask) ELSE context_[s].index

\* The cell in flight, named by the low two bits of the state word.
Mid == MaskAnd(passing_, kIndexMask)

Elements(seq) == {seq[i] : i \in 1..Len(seq)}
NoDuplicates(seq) == Cardinality(Elements(seq)) = Len(seq)

\* C1: in every state the cell owned by Left, the cell owned by Right and
\* the mid cell are pairwise distinct and together cover {0,1,2}.
C1_Partition == {Owned(Left), Owned(Right), Mid} = Cells

\* Both sides exchanged and are between their atomic write and the store of
\* their new index.
C1_Witness ==
  /\ pc[Left] = "store" /\ pc[Right] = "store"
  /\ exchanged[Left] /\ exchanged[Right]
  /\ updates[Left] >= 2 /\ updates[Right] >= 2

\* C2: no side ever reads or writes (through ref(), the callback or the
\* PassResult's ref) a cell it does not hold, and the cell in flight is
\* exactly as the side that handed it over left it.
C2_Exclusive == ~raced /\ values_[Mid] = handed

\* A side finished an Update that received a cell from the other side, while
\* the other side is inside an Update of its own.
C2_Witness ==
  \E s \in Sides :
    /\ pc[s] = "idle" /\ ret[s].kind = "Update" /\ ret[s].exchanged
    /\ updates[s] >= 2
    /\ pc[Other(s)] = "post" /\ exchanged[Other(s)]

\* C3: when no two Update calls overlapped, each Update returns the initial
\* value folded with the diffs of all earlier Updates, in call order.
C3_FetchAndApply ==
  \A s \in Sides :
    (~overlap /\ pc[s] = "idle" /\ ret[s].kind = "Update")
      => ret[s].value = before[s].submitted

\* C4: an Update during which the other side is idle returns an accumulator
\* holding every diff submitted before it exactly once.
C4_NothingLost ==
  \A s \in Sides :
    (alone[s] /\ pc[s] = "idle" /\ ret[s].kind = "Update")
      => /\ Elements(ret[s].value) = before[s].sent
         /\ NoDuplicates(ret[s].value)

\* C5: no accumulator returned by Update or ObserveLast holds a diff twice.
C5_NoDuplicate == \A s \in Sides : NoDuplicates(ret[s].value)

\* ObserveLast returned an accumulator of three diffs after overlapping
\* Updates, one of which found past_exchanged.
C5_Witness ==
  \E s \in Sides :
    /\ overlap
    /\ ret[s].kind = "ObserveLast"
    /\ Len(ret[s].value) >= 3

\* C6: after its compare-exchange, `exchanged` of side S is true iff the
\* other side wrote the state word since S's previous write; only the Right
\* side's first Pass reports true regardless.
C6_ExchangedIffOtherWrote ==
  \A s \in Sides :
    pc[s] \in {"callback", "exchange", "store", "post"}
      => (exchanged[s] <=> (wroteAtCas[s] \/ (s = Right /\ updates[s] = 1)))

\* Left sees an exchange in a later Pass while Right, in a later Pass too,
\* has seen none.
C6_Witness ==
  /\ pc[Left] = "post" /\ updates[Left] >= 2 /\ next[Left].exchanged
  /\ pc[Right] = "post" /\ updates[Right] >= 2 /\ ~next[Right].exchanged

\* C7: whenever Pass returns past_exchanged = true, the callback was invoked
\* in that Pass on the cell then owned, which the Pass handed over; neither
\* the DCHECK of Pass nor the CHECK of Update fails.
C7_CallbackCalled ==
  /\ failed = "none"
  /\ \A s \in Sides :
       (pc[s] = "post" /\ next[s].past_exchanged)
         => /\ called_might_double_exchange[s]
            /\ prev_copy[s].has_value
            /\ cbCell[s] = given[s]

\* Pass returned past_exchanged after a failed compare-exchange, the
\* callback having been called with an rvalue.
C7_Witness ==
  \E s \in Sides :
    /\ pc[s] = "post" /\ next[s].past_exchanged /\ next[s].exchanged
    /\ values_[given[s]] = MovedFrom(prev_copy[s].value)
    /\ updates[s] >= 2

\* C8: while the other side has never acted, the first Pass of Left returns
\* exchanged = false and past_exchanged = false, the first Pass of Right
\* returns exchanged = true, and every later Pass returns exchanged = false.
C8_NoSpuriousExchange ==
  \A s \in Sides :
    (updates[Other(s)] = 0 /\ pc[s] = "post")
      => IF updates[s] = 1
           THEN IF s = Right THEN next[s].exchanged
                ELSE ~next[s].exchanged /\ ~next[s].past_exchanged
           ELSE ~next[s].exchanged

\* Right passed for the third time and Left never acted.
C8_Witness ==
  /\ updates[Left] = 0
  /\ updates[Right] >= 3 /\ pc[Right] = "post"

\* C28: ObserveLast<S>() returns the accumulator S's last Update returned
\* with that Update's diff applied (the initial value before S's first
\* Update); a repeated ObserveLast returns the same and changes nothing; and
\* an ObserveLast changes only the cell S holds, and that so that S's next
\* Update leaves it the same for any diff, so no later Update of either side
\* returns anything else.
C28_ObserveLast ==
  /\ [](\A s \in Sides :
         ret[s].kind = "ObserveLast" =>
           ret[s].value = Apply(lastUpdate[s].value, lastUpdate[s].diff))
  /\ [][\A s \in Sides :
          ObserveLast(s)
            => /\ \A c \in Cells \ {RefIndex(s)} : values_'[c] = values_[c]
               /\ <<passing_, context_>>' = <<passing_, context_>>
               /\ \A d \in {NoOp, 1, 2} :
                    SliceAppend(values_'[RefIndex(s)], d)
                      = SliceAppend(values_[RefIndex(s)], d)
               /\ ret[s].kind = "ObserveLast" =>
                    ret'[s] = ret[s] /\ values_' = values_]_vars

\* Right's ObserveLast has returned diffs of both sides, its own last one
\* included, which its last Update had not returned.
C28_Witness ==
  /\ ret[Right].kind = "ObserveLast"
  /\ lastUpdate[Right].diff # NoOp
  /\ ret[Right].value # lastUpdate[Right].value
  /\ \E i \in 1..Len(ret[Right].value) : ret[Right].value[i] < 10
  /\ updates[Right] > 1

\* The members of cell c that a step of side s reads before assigning them:
\* Append reads collected_ and last_; the callback of Pass copies or moves
\* the whole cell; after Pass returned past_exchanged, Update assigns
\* collected_ (and, if not exchanged, last_) before any read.
ReadBy(s, c) ==
  IF pc[s] = "idle" /\ c = RefIndex(s)
       /\ (pc'[s] = "pass" \/ ObserveLast(s))
    THEN {"collected_", "last_"}
  ELSE IF pc[s] = "pass" /\ pc'[s] = "cas" /\ c = RefIndex(s)
            /\ MaskTest(context_[s].last, kExchangedMask)
    THEN {"collected_", "last_"}
  ELSE IF pc[s] = "callback" /\ pc'[s] = "exchange" /\ c = RefIndex(s)
            /\ CallAfterCas(s)
    THEN {"collected_", "last_"}
  ELSE IF pc[s] = "post" /\ pc'[s] = "idle" /\ c = next[s].ref
    THEN IF ~next[s].past_exchanged THEN {"collected_", "last_"}
         ELSE IF next[s].exchanged THEN {"last_"} ELSE {}
  ELSE {}

\* C31: after Pass has handed the callback an rvalue of a cell, no step of
\* either side reads the accumulator or the pending diff of that cell before
\* it has been assigned again.
C31_MovedNotRead ==
  [][\A s \in Sides : \A c \in Cells : ReadBy(s, c) \cap moved[c] = {}]_vars

\* The step of a Pass of side s that writes passing_: the compare-exchange
\* if it succeeds, the exchange otherwise. received is not assigned again
\* until Pass returns past_exchanged = (received & kExchangedMask) != 0.
Writes(s) ==
  \/ pc[s] = "cas" /\ pc'[s] = "store"
  \/ pc[s] = "exchange" /\ pc'[s] = "store"

\* C32 as stated: a Pass of side S that returns past_exchanged follows an
\* exchanging Pass of the opposite side made after S's previous Pass.
C32_OppositeExchanged ==
  [][\A s \in Sides :
       Writes(s) /\ MaskTest(received'[s], kExchangedMask)
         => Other(s) \in exchangers[s]]_vars

\* C32: a Pass of side S that returns past_exchanged follows an exchanging
\* Pass: of the opposite side, made after S's previous Pass, if S's
\* compare-exchange fails; S's own previous Pass, with no Pass of the
\* opposite side after it, if the compare-exchange succeeds.
C32_PastExchanged ==
  [][\A s \in Sides :
       Writes(s) /\ MaskTest(received'[s], kExchangedMask)
         => IF exchanged'[s] THEN Other(s) \in exchangers[s]
                             ELSE exchangers[s] = {s} /\ ~wroteSince[s]]_vars

\* Both cases have returned past_exchanged: Left's Pass after an exchanging
\* Pass of Right, and Right's Pass after its own exchanging Pass.
C32_Witness ==
  /\ pc[Left] = "post" /\ next[Left].past_exchanged /\ next[Left].exchanged
  /\ pc[Right] = "post" /\ next[Right].past_exchanged /\ ~next[Right].exchanged

\* The step in which a Pass of side s returns exchanged = false: it stores
\* ctx.index after its compare-exchange has succeeded.
ReturnsNotExchanged(s) ==
  pc[s] = "store" /\ pc'[s] = "post" /\ ~exchanged[s]

\* C33 as stated: when the compare-exchange of a Pass succeeds, mid holds
\* the side's former cell, the side's index is the same after the Pass as
\* before it, and exchanged = false is returned.
C33_IndexUnchanged ==
  [][\A s \in Sides :
       /\ pc[s] = "cas" /\ pc'[s] = "store"
            => /\ MaskAnd(passing_', kIndexMask) = context_[s].index
               /\ holder'[context_[s].index] = "mid"
       /\ ReturnsNotExchanged(s)
            => /\ ~next'[s].exchanged
               /\ context_'[s].index = context_[s].index]_vars

\* C33: when the compare-exchange of a Pass succeeds, mid holds the side's
\* former cell, exchanged = false is returned, and the side's index after
\* the Pass is another cell than before it: the cell the side handed over
\* in its previous Pass (cell 1, the initial mid, in Left's first Pass).
C33_CasSucceeded ==
  [][\A s \in Sides :
       /\ pc[s] = "cas" /\ pc'[s] = "store"
            => /\ MaskAnd(passing_', kIndexMask) = context_[s].index
               /\ holder'[context_[s].index] = "mid"
       /\ ReturnsNotExchanged(s)
            => /\ ~next'[s].exchanged
               /\ context_'[s].index # context_[s].index
               /\ context_'[s].index =
                    IF passed[s].before = NoCell THEN 1
                    ELSE passed[s].before.cell
               /\ passed[s].before = NoCell => s = Left]_vars

\* The compare-exchange of a Pass of Right has succeeded: mid holds the
\* cell Right had, and Right is about to store the index of the cell it
\* handed over in its previous Pass.
C33_Witness ==
  /\ pc[Right] = "store" /\ ~exchanged[Right]
  /\ passed[Right].before # NoCell
  /\ StoredIndex(Right) = passed[Right].before.cell
  /\ MaskAnd(passing_, kIndexMask) = context_[Right].index

\* C37: a Pass that returns exchanged = false and is not Left's very first
\* Pass returns the cell the side handed over in its previous Pass, with
\* the contents the cell had when it was handed over.
C37_ReturnedUntouched ==
  [][\A s \in Sides :
       ReturnsNotExchanged(s) /\ ~(s = Left /\ passed[s].before = NoCell)
         => /\ next'[s].ref = passed[s].before.cell
            /\ values_[next'[s].ref] = passed[s].before.value]_vars

\* A Pass of Left is about to return exchanged = false and a cell that
\* Left had handed over with a pending diff, which is still in it.
C37_Witness ==
  /\ pc[Left] = "store" /\ ~exchanged[Left]
  /\ passed[Left].before # NoCell
  /\ values_[StoredIndex(Left)].last_ # NoOp
  /\ values_[StoredIndex(Left)] = passed[Left].before.value

\* ------------------------------------------------------------------------
\* Properties of UniDiChannel (SpecChannel).

\* C38: no diff is in the results of two UpdateRight calls, or twice in
\* one; every result holds only diffs passed to UpdateLeft; and an
\* UpdateRight during which no UpdateLeft runs leaves every diff passed to
\* UpdateLeft before it in the result of some UpdateRight.
C38_EachDiffOnce ==
  /\ NoDuplicates(delivered)
  /\ Elements(delivered) \subseteq sent
  /\ (alone[Right] /\ pc[Right] = "idle" /\ ret[Right].kind = "Update")
       => before[Right].sent \subseteq Elements(delivered)

\* ------------------------------------------------------------------------
\* Wait-freedom of Local3StateExchange and Local3StateRcu (SpecPrimitives).

\* The steps of one Pass call of side s.
PassStep(s) ==
  /\ \/ PassBegin(s)
     \/ PassCas(s)
     \/ PassCallback(s)
     \/ PassExchange(s)
     \/ PassStore(s)
  /\ UNCHANGED <<rcuVars, metricVars, laterVars>>

\* Where a Pass call can be after its next step: straight on, the
\* compare-exchange ("cas") being followed by the exchange only through
\* "callback".
PassSuccessors(p) ==
  CASE p = "pass" -> {"cas"}
    [] p = "cas" -> {"callback", "store"}
    [] p = "callback" -> {"exchange"}
    [] p = "exchange" -> {"store"}
    [] p = "store" -> {"post"}
    [] OTHER -> {}

\* Side s is inside Pass.
InPass(s) == pc[s] \in {"pass", "cas", "callback", "exchange", "store"}

\* The step is one of side s's Pass.
PassStepOf(s) ==
  /\ InPass(s)
  /\ <<pc[s], called_might_double_exchange[s], received[s], new_index[s],
       exchanged[s], context_[s], next[s], prev_copy[s]>>'
       # <<pc[s], called_might_double_exchange[s], received[s], new_index[s],
           exchanged[s], context_[s], next[s], prev_copy[s]>>

\* The second step of the Reader's or the Updater's operation.
RcuFinish ==
  /\ \/ TryReadFinish
     \/ TryUpdateFinish
     \/ ForceUpdateFinish
  /\ UNCHANGED <<exchVars, metricVars, laterVars>>

\* C40: a thread inside Pass, TryRead, TryUpdate or ForceUpdate can take its
\* next step whatever state the other thread is in; every step of a Pass
\* moves it on along pass, cas, (callback, exchange,) store, so that it
\* returns after at most five steps, with one compare-exchange and, exactly
\* when that failed, one exchange, these being its only writes of passing_;
\* TryRead, TryUpdate and ForceUpdate return in the step after their one
\* atomic operation, which is their only access to next_read_index_, and
\* ReclaimByUpdate is a single load.
C40_WaitFree ==
  /\ [](\A s \in Sides :
         (InPass(s) /\ failed = "none") => ENABLED PassStep(s))
  /\ []((rpc # "idle" \/ upc # "idle") => ENABLED RcuFinish)
  /\ [][\A s \in Sides :
          PassStepOf(s)
            => /\ pc'[s] \in PassSuccessors(pc[s])
               /\ pc'[s] = "callback" => exchanged'[s] /\ UNCHANGED passing_
               /\ (pc[s] = "cas" /\ pc'[s] = "store") => ~exchanged'[s]
               /\ pc'[s] = "exchange" => exchanged[s]
               /\ passing_' # passing_ => pc[s] \in {"cas", "exchange"}]_vars
  /\ [][/\ rpc' # rpc => (rpc = "idle" \/ rpc' = "idle")
        /\ upc' # upc => (upc = "idle" \/ upc' = "idle")
        /\ next_read_index_' # next_read_index_
             => \/ rpc = "idle" /\ rpc' = "TryRead"
                \/ upc = "idle" /\ upc' \in {"TryUpdate", "ForceUpdate"}]_vars

\* The compare-exchange of Left's Pass has failed and Left is about to do
\* its exchange, while Right is inside its own Pass, before its
\* compare-exchange.
C40_Witness ==
  /\ pc[Left] = "exchange" /\ exchanged[Left]
  /\ pc[Right] = "cas"

\* ------------------------------------------------------------------------
\* Properties of Local3StateRcu (SpecRcu).

\* The Reader can use Read(): it is not between the exchange of a TryRead
\* that returns true and the store of read_.index.
ReaderAtRest == rpc = "idle" \/ next_read_index = kNullIndex

\* C9: whenever the Reader can use Read() and the Updater is between its
\* operations, the cells behind Read(), behind Update() and behind a
\* non-null ReclaimByUpdate() result are pairwise distinct.
C9_DistinctCells ==
  (ReaderAtRest /\ upc = "idle")
    => /\ read_.index # update_.index
       /\ reclaimed # kNullIndex
            => reclaimed \notin {read_.index, update_.index}

\* The Updater holds a pointer from ReclaimByUpdate after the Reader has
\* advanced twice.
C9_Witness ==
  /\ rpc = "idle" /\ upc = "idle"
  /\ reclaimed # kNullIndex
  /\ lastTryRead = "true" /\ read_.index = 0 /\ writes >= 2

\* C10: between two TryRead calls that return true, and before the first,
\* Read() refers to the same cell, whose contents only the Reader changes.
C10_Stable ==
  ReaderAtRest
    => /\ read_.index = stable.cell
       /\ rcu_values_[read_.index] = stable.value

\* A TryRead returned false after the Updater published twice and wrote
\* through Update() and through the reclaimed pointer.
C10_Witness ==
  /\ rpc = "idle" /\ lastTryRead = "false" /\ read_.index # 0
  /\ writes = MaxWrites
  /\ \E c \in Cells : rcu_values_[c].tag = "reclaimed"

\* C11 (as amended): once ForceUpdate has returned, a TryRead called
\* afterwards leaves the Reader on that publication or a later one, with the
\* contents the cell had when it was published; it returns true unless an
\* earlier TryRead, overlapping the ForceUpdate, had already taken the
\* publication. The publications the Reader takes never go back.
C11_Freshness ==
  /\ [](rpc = "TryRead" => taken.seq >= owed)
  /\ []((rpc = "TryRead" /\ Advances)
          => /\ next_read_index = taken.cell
             /\ rcu_values_[next_read_index] = taken.value)
  /\ []((rpc = "TryRead" /\ mustAdvance /\ ~Advances)
          => /\ taken.seq >= owed
             /\ read_.index = taken.cell)
  /\ [](rpc = "idle"
          => /\ read_.index = taken.cell
             /\ rcu_values_[read_.index].n = taken.value.n
             /\ lastTryRead # "none" => taken.seq >= owed)
  /\ [][taken'.seq >= taken.seq]_vars

\* C11 as stated: the first TryRead called after a ForceUpdate returned
\* returns true.
C11_NextTryReadTrue == (rpc = "TryRead" /\ mustAdvance) => Advances

\* After a ForceUpdate returned, the next TryRead returned true and left the
\* Reader on a publication later than the one of that ForceUpdate.
C11_Witness ==
  /\ rpc = "idle" /\ upc = "idle"
  /\ mustAdvance /\ lastTryRead = "true"
  /\ owed >= 1 /\ taken.seq > owed
  /\ rcu_values_[read_.index].tag = "written"

\* C12: TryUpdate returns false exactly when the last publication has not
\* been taken by the Reader; a TryUpdate that returns false changes neither
\* next_read_index_, nor the cell behind Update(), nor any contents, and
\* what waits for the Reader is still the earlier publication.
C12_RejectedTryUpdate ==
  /\ [][(upc = "idle" /\ upc' = "TryUpdate")
          => /\ (old_next_read_index' # kNullIndex) <=> untaken
             /\ untaken => UNCHANGED <<next_read_index_, update_, rcu_values_,
                                       published, publications>>]_vars
  /\ [][(upc = "TryUpdate" /\ upc' = "idle"
           /\ old_next_read_index # kNullIndex)
          => UNCHANGED <<next_read_index_, update_, rcu_values_, published,
                         publications>>]_vars
  /\ []((upc = "TryUpdate" /\ old_next_read_index # kNullIndex)
          => /\ published.cell # update_.index
             /\ untaken => /\ next_read_index_ = published.cell
                           /\ rcu_values_[published.cell] = published.value)

\* A TryUpdate is rejected while Update() holds a value written after the
\* publication that still waits for the Reader.
C12_Witness ==
  /\ upc = "TryUpdate" /\ old_next_read_index # kNullIndex
  /\ untaken
  /\ rcu_values_[update_.index].tag = "written"
  /\ published.value.tag = "written"
  /\ rcu_values_[update_.index].n > published.value.n

\* C13: ForceUpdate always stores the index of the current Update() cell for
\* the Reader; it returns true iff no publication was waiting (the in-flight
\* cell was R->U); a publication it takes back untaken is never taken by the
\* Reader, and its cell, contents included, is the new Update() cell.
C13_ForceUpdate ==
  /\ [][(upc = "idle" /\ upc' = "ForceUpdate")
          => /\ next_read_index_' = update_.index
             /\ (old_next_read_index' = kNullIndex) <=> ~untaken
             /\ untaken => old_next_read_index' = published.cell]_vars
  /\ [][(upc = "ForceUpdate" /\ upc' = "idle"
           /\ old_next_read_index # kNullIndex)
          => /\ update_'.index = incoming.cell
             /\ rcu_values_'[update_'.index] = incoming.value]_vars
  /\ [](taken.seq \notin discarded)
  /\ []((rpc = "idle" /\ upc = "idle" /\ discarded # {})
          => read_.index # update_.index)

\* The Reader advanced after a ForceUpdate had taken back an earlier
\* publication that held a written value.
C13_Witness ==
  /\ rpc = "idle" /\ upc = "idle"
  /\ \E k \in discarded : taken.seq > k
  /\ incoming.value.tag = "written"
  /\ taken.value.tag = "written"
  /\ taken.value.n > incoming.value.n

\* C14: when TryUpdate or ForceUpdate returns true, Update() is the cell the
\* Reader's last exchange gave up (the constructor's third cell if the
\* Reader never advanced), holding what the Reader left in it, or that with
\* the Updater's own writes through ReclaimByUpdate.
C14_ReclaimedToUpdate ==
  [][(upc # "idle" /\ upc' = "idle" /\ old_next_read_index = kNullIndex)
       => /\ update_'.index = incoming.cell
          /\ rcu_values_'[update_'.index].n = incoming.value.n
          /\ rcu_values_'[update_'.index].tag
               \in {incoming.value.tag, "reclaimed"}
          /\ taken.seq = 0 /\ rpc = "idle" => incoming.cell = 2]_vars

\* A second successful update has returned and Update() is a cell the
\* Reader wrote to before giving it up.
C14_Witness ==
  /\ upc = "idle" /\ discarded = {} /\ publications >= 2
  /\ incoming.value.tag = "consumed"
  /\ update_.index = incoming.cell
  /\ rcu_values_[update_.index] = incoming.value

\* C15: ReclaimByUpdate returns a cell iff no publication waits for the
\* Reader (the in-flight cell is R->U); until the Updater's next TryUpdate
\* or ForceUpdate the pointer is the cell the Reader's last exchange gave
\* up, with the n the Reader left, is not the Update() cell, is not offered
\* to the Reader and is not the cell the Reader uses.
C15_ReclaimByUpdate ==
  /\ reclaimCall # "none"
       => ((reclaimed # kNullIndex) <=> (reclaimCall = "R->U"))
  /\ reclaimed # kNullIndex
       => /\ reclaimCall = "R->U"
          /\ reclaimed = released.cell
          /\ rcu_values_[reclaimed].n = released.value.n
          /\ reclaimed # update_.index
          /\ next_read_index_ = kNullIndex
          /\ ReaderAtRest => reclaimed # read_.index

\* ReclaimByUpdate returned the cell the Reader wrote to and then gave up by
\* a TryRead that has returned.
C15_Witness ==
  /\ rpc = "idle" /\ upc = "idle"
  /\ reclaimCall = "R->U" /\ reclaimed # kNullIndex
  /\ taken.seq >= 1
  /\ rcu_values_[reclaimed].tag = "consumed"

\* C16: after Local3StateRcu(read, update, reclaim), Read() is the cell with
\* `read` until the Reader advances and Update() the cell with `update`
\* until the Updater publishes; a TryRead returns true only after a
\* publication; the Updater's first TryUpdate or ForceUpdate returns true,
\* and Update() is then the cell with `reclaim`.
C16_InitialState ==
  /\ []((taken.seq = 0 /\ ReaderAtRest)
          => /\ read_.index = 0
             /\ rcu_values_[0].n = 0
             /\ rcu_values_[0].tag \in {"initial", "consumed"})
  /\ []((publications = 0 /\ upc = "idle" /\ writes = 0)
          => /\ update_.index = 1
             /\ rcu_values_[1] = [tag |-> "initial", n |-> 1])
  /\ []((rpc = "TryRead" /\ Advances) => publications >= 1)
  /\ [][(upc = "idle" /\ upc' # "idle" /\ publications = 0)
          => old_next_read_index' = kNullIndex]_vars
  /\ [][(upc # "idle" /\ upc' = "idle" /\ publications = 1
           /\ old_next_read_index = kNullIndex)
          => /\ update_'.index = 2
             /\ rcu_values_'[2].n = 2
             /\ rcu_values_'[2].tag \in {"initial", "reclaimed"}]_vars

\* The first TryRead returned false and the first update returned true,
\* leaving Update() on the constructor's third argument.
C16_Witness ==
  /\ rpc = "idle" /\ upc = "idle"
  /\ lastTryRead = "false" /\ taken.seq = 0
  /\ publications = 1 /\ untaken
  /\ update_.index = 2
  /\ rcu_values_[2] = [tag |-> "initial", n |-> 2]

\* C35: whenever neither the Reader nor the Updater is inside an operation,
\* if next_read_index_ is kNullIndex then read_.index = update_.next_index
\* and read_.index # update_.index; otherwise read_.index, update_.index
\* and update_.next_index are the three cells and next_read_index_ =
\* update_.next_index.
C35_IndexInvariants ==
  (rpc = "idle" /\ upc = "idle")
    => IF next_read_index_ = kNullIndex
         THEN /\ read_.index = update_.next_index
              /\ read_.index # update_.index
         ELSE /\ {read_.index, update_.index, update_.next_index} = Cells
              /\ next_read_index_ = update_.next_index

\* Both threads are at rest with a publication waiting, after the Reader
\* has advanced and a ForceUpdate has taken an untaken publication back.
C35_Witness ==
  /\ rpc = "idle" /\ upc = "idle"
  /\ next_read_index_ # kNullIndex
  /\ read_.index # 0
  /\ discarded # {}

\* C36: the publications are numbered in the order the Updater makes them.
\* Every TryRead that returns true obtains a publication with a higher
\* number than the one before it, made before the TryRead's exchange, and
\* Read() then yields the contents that publication had when it was made.
C36_PublicationOrder ==
  /\ [][(rpc = "idle" /\ rpc' = "TryRead" /\ next_read_index' # kNullIndex)
          => /\ taken'.seq > taken.seq
             /\ taken'.seq <= publications
             /\ taken'.cell = next_read_index']_vars
  /\ [][(rpc = "TryRead" /\ rpc' = "idle" /\ lastTryRead' = "true")
          => /\ read_'.index = taken.cell
             /\ rcu_values_'[read_'.index] = taken.value]_vars
  /\ [][(rpc' = "idle" /\ lastTryRead' = "false") => taken' = taken]_vars

\* A TryRead is about to return true with the third publication, after an
\* earlier one returned true; the second publication was never obtained.
C36_Witness ==
  /\ rpc = "TryRead" /\ Advances
  /\ lastTryRead = "true"
  /\ taken.seq = 3
  /\ 2 \in discarded
  /\ taken.value.tag = "written"

\* ------------------------------------------------------------------------
\* Properties of LocalLockFreeMetric (SpecMetric).

\* <<1, ..., n>>: the values of the first n Update calls, in call order
FirstUpdates(n) == [i \in 1..n |-> i]

\* C17: in every interleaving of the updating and the collecting thread, the
\* results of the Collect calls, concatenated, are the values of the first
\* Update calls in call order, each once, and no check of Update or Collect
\* fails; once every Update has returned, one more Collect completes them.
C17_EachOnceInOrder ==
  LET h == localHistory[Standalone]
  IN /\ locals[Standalone].failed = "none"
     /\ Len(h.collectedAll) <= h.updates
     /\ h.collectedAll = FirstUpdates(Len(h.collectedAll))
     /\ (locals[Standalone].cpc = "idle" /\ h.returnedAtCollect = h.updates)
          => h.collectedAll = FirstUpdates(h.updates)

\* Several Collect results together hold the values of all the Update
\* calls, and the last Collect was called after the last Update returned.
C17_Witness ==
  LET h == localHistory[Standalone]
  IN /\ locals[Standalone].cpc = "idle" /\ locals[Standalone].upc = "idle"
     /\ h.updates = MaxMetricUpdates
     /\ h.returnedAtCollect = MaxMetricUpdates
     /\ Len(h.collectedAll) = MaxMetricUpdates
     /\ h.lastCollect # <<>> /\ h.lastCollect # h.collectedAll

\* The values of the Update calls number from + 1 to upto, in call order
UpdatesBetween(from, upto) == [i \in 1..(upto - from) |-> from + i]

\* C18: when a Collect has returned, every Update that had returned before
\* it was called is in its result or in an earlier one; with no Update
\* running during the Collect, its result is exactly the values of the
\* Update calls since the previous Collect, and is empty when there is none.
C18_SeenByNextCollect ==
  LET h == localHistory[Standalone]
  IN locals[Standalone].cpc = "idle" =>
       /\ Len(h.collectedAll) >= h.returnedAtCollect
       /\ h.updatesAtReturn = h.returnedAtCollect =>
            /\ h.lastCollect =
                 UpdatesBetween(h.collectedAtCollect, h.returnedAtCollect)
            /\ h.collectedAtCollect = h.returnedAtCollect
                 => h.lastCollect = <<>>

\* A Collect overlapped by no Update has returned the two values updated
\* since the previous Collect, which had returned values as well.
C18_Witness ==
  LET h == localHistory[Standalone]
  IN /\ locals[Standalone].cpc = "idle"
     /\ h.updatesAtReturn = h.returnedAtCollect
     /\ h.collectedAtCollect > 0
     /\ Len(h.lastCollect) = 2
     /\ h.returnedAtCollect = h.collectedAtCollect + 2

\* C34: with one thread calling Update and another calling Collect, no
\* check of LocalLockFreeMetric fails: whenever Update has passed its Slice,
\* the Slice it received is empty if Collect had it, has size advance + 1 if
\* advance is positive, and ends at update_index_ after the reset or trim;
\* whenever Collect has passed its Slice, seen is not negative, equals
\* size - 1 if it is positive and below the size, and the Slice is empty if
\* seen is not below the size.
C34_NoCheckFails ==
  LET L == locals[Standalone]
      slice == L.values_[L.right_]
  IN /\ L.failed = "none"
     /\ L.upc = "Update" => UpdateChecks(L)
     /\ L.cpc = "Collect"
          => /\ Seen(L) >= 0
             /\ (0 < Seen(L) /\ Seen(L) < SliceSize(slice))
                  => Seen(L) = SliceSize(slice) - 1
             /\ Seen(L) >= SliceSize(slice) => SliceEmpty(slice)
             /\ CollectBranch(L) \in {"collect", "reset"}

\* Both calls are past their exchange: Update received the Slice a Collect
\* had reset, while the running Collect received a Slice of which it has
\* seen all but the last value.
C34_Witness ==
  LET L == locals[Standalone]
  IN /\ L.failed = "none"
     /\ L.upc = "Update" /\ L.exchanged
     /\ L.cpc = "Collect" /\ Seen(L) > 0
     /\ Seen(L) = SliceSize(L.values_[L.right_]) - 1

\* ------------------------------------------------------------------------
\* Properties of LockFreeMetric (SpecFanIn).

\* The Locals a result of LockFreeMetric::Collect has entries of
Entries(res) == {e[1] : e \in res}

\* The sum of the entries of a result: each Update adds one, so the C an
\* entry holds is the number of values collected into it.
RECURSIVE ResultSum(_)
ResultSum(res) ==
  IF res = {} THEN 0
  ELSE LET e == CHOOSE x \in res : TRUE
       IN Len(e[2]) + ResultSum(res \ {e})

\* The Update calls made on the LockFreeMetric m by the threads of ts
RECURSIVE UpdatesOf(_, _)
UpdatesOf(m, ts) ==
  IF ts = {} THEN 0
  ELSE LET t == CHOOSE x \in ts : TRUE
       IN localHistory[<<t, m>>].updates + UpdatesOf(m, ts \ {t})

\* What the Collect calls on m have returned so far, of the threads of ts
RECURSIVE CollectedOf(_, _)
CollectedOf(m, ts) ==
  IF ts = {} THEN 0
  ELSE LET t == CHOOSE x \in ts : TRUE
       IN Len(localHistory[<<t, m>>].collectedAll) + CollectedOf(m, ts \ {t})

\* C19: when a Collect was called after every producer thread had
\* terminated, and no earlier Collect has returned any of the updates, the
\* entries of its result sum up to the number N of Update calls made.
C19_SumAfterJoin ==
  LET m == lfmHistory.metric
  IN (/\ m # "none"
      /\ lfmHistory.afterJoin
      /\ CollectedOf(m, Threads) = ResultSum(lfmHistory.result))
       => ResultSum(lfmHistory.result) = UpdatesOf(m, Threads)

\* The last Collect has returned one entry for each thread whose Local of
\* the LockFreeMetric existed, and no other; when it followed a Collect of
\* the same LockFreeMetric with no Update in between, every entry is C{}.
EntriesOfLive ==
  LET m == lfmHistory.metric
  IN m # "none" =>
       /\ Entries(lfmHistory.result) = {<<t, m>> : t \in lfmHistory.live}
       /\ Cardinality(lfmHistory.result) = Cardinality(lfmHistory.live)
       /\ lfmHistory.repeated => \A e \in lfmHistory.result : e[2] = <<>>

\* C20: the last Collect has returned one entry for each thread that had
\* called Update on this LockFreeMetric, and none for a thread that had
\* not (one that updated only another LockFreeMetric, or none); when it
\* followed a Collect of the same LockFreeMetric with no Update in between,
\* every entry is C{}.
C20_OneEntryPerUpdater ==
  LET m == lfmHistory.metric
  IN m # "none" =>
       /\ Entries(lfmHistory.result) = {<<t, m>> : t \in lfmHistory.updaters}
       /\ Cardinality(lfmHistory.result) = Cardinality(lfmHistory.updaters)
       /\ lfmHistory.repeated => \A e \in lfmHistory.result : e[2] = <<>>

\* ------------------------------------------------------------------------
\* Properties of Refcount (SpecRefcount).

\* C29: the counter is never negative and, until a Dec has returned true,
\* equals the number of references held; at most one Dec returns true, and
\* one has exactly when no reference is held any more; a Dec(true) that
\* returned true without decrementing was called by the holder of the sole
\* reference.
C29_OneLastDec ==
  /\ count_ >= 0
  /\ lastDec.calls <= 1
  /\ (lastDec.calls = 1) <=> (HeldBy(Holders) = 0)
  /\ lastDec.calls = 0 => count_ = HeldBy(Holders)
  /\ lastDec.shortcut => lastDec.sole /\ count_ = 1

\* After every Inc allowed and the Dec calls releasing all references but
\* one, Dec(true) has returned true without decrementing.
C29_Witness ==
  /\ lastDec.calls = 1 /\ lastDec.shortcut
  /\ incs = MaxIncs
  /\ HeldBy(Holders) = 0

\* ------------------------------------------------------------------------
\* Properties of CopyRcu (SpecCopyRcu).

\* What the next outermost Read of a View yields if no ForceUpdate comes
\* before it: the cell in flight, or else the Reader's cell.
Latest(view) ==
  LET rcu == view.local_rcu
  IN IF rcu.next_read_index_ # kNullIndex
       THEN rcu.values_[rcu.next_read_index_]
       ELSE rcu.values_[rcu.read_.index]

\* C21: an outermost Read of a View that starts after an Update returned
\* yields the value of that Update or of a later one (the values are
\* numbered in the order of the Updates), whether the View was registered
\* before the Update or constructed after it.
C21_ReadAfterUpdate ==
  \A v \in Views :
    views[v].snapshot_depth_ > 0 =>
      /\ viewHistory[v].value >= viewHistory[v].owed
      /\ viewHistory[v].value <= cr_value_ + 1

\* v1, registered before the Update of 1, has received 1 through a
\* ForceUpdate; v2, constructed after it, has found 1 in its initial cell.
C21_Witness ==
  /\ views["v1"].snapshot_depth_ > 0
  /\ viewHistory["v1"].owed = 1
  /\ viewHistory["v1"].value = 1
  /\ viewHistory["v1"].cell # 0
  /\ views["v2"].snapshot_depth_ > 0
  /\ viewHistory["v2"].owed = 1
  /\ viewHistory["v2"].value = 1
  /\ viewHistory["v2"].cell = 0
  /\ views["v2"].local_rcu = NewLocal3StateRcu(1)

\* C22: while a Snapshot of a View is alive, the cell it points to keeps
\* its value whatever Updates happen, a nested Read returns a pointer to
\* the same cell, and the Reader's cell changes only in a Read that finds
\* no Snapshot alive.
C22_SnapshotStable ==
  /\ [](\A v \in Views :
          views[v].snapshot_depth_ > 0 =>
            /\ views[v].local_rcu.read_.index = viewHistory[v].cell
            /\ views[v].local_rcu.values_[viewHistory[v].cell]
                 = viewHistory[v].value
            /\ viewHistory[v].last = viewHistory[v].cell
            /\ views[v].local_rcu.update_.index # viewHistory[v].cell)
  /\ [][\A v \in Views :
          (/\ views[v].state = "live"
           /\ views'[v].state = "live"
           /\ views'[v].local_rcu.read_ # views[v].local_rcu.read_)
          => /\ views[v].snapshot_depth_ = 0
             /\ views'[v].snapshot_depth_ = 1]_vars

\* Two Snapshots of a View are alive, and an Update that started after the
\* outermost Read has returned: its value waits in the cell in flight.
C22_Witness ==
  \E v \in Views :
    /\ views[v].snapshot_depth_ = 2
    /\ cr_lock_ = NoWriter
    /\ viewHistory[v].owed < cr_value_
    /\ viewHistory[v].value < cr_value_
    /\ Latest(views[v]) = cr_value_

\* C23: UpdateIf with a predicate that is false on the current value
\* returns std::nullopt and changes neither value_ nor any View; with a
\* predicate that is true it returns the previous value, installs its
\* argument and publishes it to every registered View, as Update does.
C23_UpdateIf ==
  /\ [](copyRet.kind = "UpdateIf" =>
          IF copyRet.asked.eq <=> (copyRet.previous = copyRet.asked.e)
            THEN copyRet.value = copyRet.previous
            ELSE copyRet.value = NoValue)
  /\ [][(copyRet' # copyRet /\ copyRet'.kind = "UpdateIf") =>
          IF copyRet'.asked.eq <=> (cr_value_ = copyRet'.asked.e)
            THEN /\ cr_value_' = copyRet'.given
                 /\ \A v \in cr_locals_ :
                      Latest(views'[v]) = copyRet'.given
            ELSE /\ cr_value_' = cr_value_
                 /\ views' = views
                 /\ cr_locals_' = cr_locals_]_vars

\* An UpdateIf was rejected while a View holds a Snapshot of an earlier
\* Update's value.
C23_Witness ==
  /\ copyRet.kind = "UpdateIf"
  /\ copyRet.value = NoValue
  /\ cr_value_ = 1
  /\ \E v \in Views : /\ views[v].snapshot_depth_ > 0
                      /\ viewHistory[v].value = 1

\* C24: each call of Update returns the value installed by the call that
\* held lock_ immediately before it (the first one the initial value), and
\* when no call is running every View is about to read the value of the
\* last one.
C24_Serialized ==
  /\ copyRet.kind \in {"Update", "UpdateIf"} /\ copyRet.value # NoValue
       => /\ copyRet.value = copyRet.given - 1
          /\ copyRet.value = copyRet.previous
  /\ cr_lock_ \in Writers => updating.value = cr_value_ + 1
  /\ cr_lock_ = NoWriter =>
       \A v \in cr_locals_ : Latest(views[v]) = cr_value_

\* The second Update has returned the value of the first, and both Views
\* are about to read the value of the second, one of them past a value it
\* never read.
C24_Witness ==
  /\ copyRet.kind = "Update"
  /\ copyRet.given = 2
  /\ copyRet.value = 1
  /\ cr_lock_ = NoWriter
  /\ cr_locals_ = Views
  /\ \E v \in Views : /\ views[v].snapshot_depth_ > 0
                      /\ viewHistory[v].value = 0
                      /\ Latest(views[v]) = 2

\* The step changes what only the Updater of the View's Local3StateRcu
\* writes: update_, or the contents of a cell.
UpdaterActs(v) ==
  \/ views'[v].local_rcu.update_ # views[v].local_rcu.update_
  \/ views'[v].local_rcu.values_ # views[v].local_rcu.values_

\* C39: a turn of UpdateLocked's loop acts on a View that is registered
\* and completely constructed, and whose destructor has not unregistered
\* it; the calling thread holds lock_, so that it is the only one inside
\* UpdateLocked; and between its construction and its destruction nothing
\* else acts as the Updater of a View's Local3StateRcu.
C39_RegisteredOnly ==
  /\ [][\A w \in Writers, v \in Views :
          UpdateLocal(w, v)
            => /\ views[v].state = "live"
               /\ v \in cr_locals_
               /\ cr_lock_ = w /\ updating.kind # "none"]_vars
  /\ [][\A v \in Views :
          (views[v].state = views'[v].state /\ UpdaterActs(v))
            => \E w \in Writers : UpdateLocal(w, v)]_vars
  /\ [](\A v \in Views :
          \/ views[v].state = "live" /\ v \in cr_locals_
          \/ views[v].state = "constructing" /\ v \in cr_locals_
               /\ updating.kind = "none"
          \/ views[v].state \in {"none", "unregistered", "gone"}
               /\ v \notin cr_locals_ /\ v \notin updating.todo)

\* An Update is inside its loop, having published to one View; the other
\* View has unregistered and its Local3StateRcu is not destroyed yet.
C39_Witness ==
  /\ cr_lock_ \in Writers
  /\ updating.todo = {}
  /\ views["v1"].state = "live"
  /\ Latest(views["v1"]) = updating.value
  /\ views["v2"].state = "unregistered"

\* ------------------------------------------------------------------------
\* Properties of ThreadLocalDelayed and ThreadLocalWeak (SpecThreadLocal).

\* The instances created so far
Created == 1 .. tl_created

\* The instances that threads have in their maps
Mapped == {map_ptr[t] : t \in Threads} \ {NoInstance}

\* C25: a PruneAndList of a ThreadLocalDelayed returns every instance
\* created and not yet handed over, in `current` or in `abandoned` and never
\* in both; in `abandoned` only instances whose thread has terminated, all
\* of those whose thread had terminated when the call began (so that one
\* missed by a call is returned by the next), and none that an earlier call
\* returned; no instance is lost, and none leaves the central object while
\* its thread has it.
C25_Delayed ==
  /\ lastResult.kind = "delayed" =>
       /\ lastResult.current \cup lastResult.abandoned = lastResult.began
       /\ lastResult.current \cap lastResult.abandoned = {}
       /\ lastResult.abandoned \subseteq lastResult.goneAtReturn
       /\ lastResult.goneAtBegin \subseteq lastResult.abandoned
       /\ lastResult.began \cap lastResult.handedBefore = {}
       /\ lastResult.after = lastResult.current
  /\ tl_kind = "delayed" =>
       /\ Range(per_thread_) \cup handedOver = Created
       /\ Range(per_thread_) \cap handedOver = {}
       /\ Len(per_thread_) = Cardinality(Range(per_thread_))
       /\ destroyed \cup callerHolds = handedOver
       /\ \A i \in handedOver : abandoned_[i]
       /\ \A i \in Mapped : i \in Range(per_thread_) /\ ~abandoned_[i]

\* Two threads terminated while a PruneAndList was running: it took the
\* instance of one for current and returned the other one in `abandoned`.
C25_Witness ==
  /\ lastResult.kind = "delayed"
  /\ lastResult.current \cap lastResult.goneAtReturn # {}
  /\ lastResult.abandoned \ lastResult.goneAtBegin # {}

\* C26: a PruneAndList of a ThreadLocalWeak returns strong references to
\* exactly the listed instances that exist when it returns and leaves none
\* in the list that had expired when it was called; an instance is
\* destroyed as soon as neither a thread's map nor a caller of PruneAndList
\* holds a reference to it, and not before.
C26_Weak ==
  /\ lastResult.kind = "weak" =>
       /\ lastResult.current = lastResult.began \ lastResult.goneAtReturn
       /\ lastResult.after \cap lastResult.goneAtBegin = {}
       /\ lastResult.current \subseteq lastResult.after
  /\ tl_kind = "weak" =>
       /\ destroyed = Created \ (Mapped \cup callerHolds)
       /\ Created \ destroyed \subseteq Range(per_thread_)
       /\ prune.current \subseteq callerHolds

\* A PruneAndList has removed an expired entry, and a reference one has
\* returned keeps an instance alive whose thread has terminated or erased.
C26_Witness ==
  /\ lastResult.kind = "weak"
  /\ lastResult.goneAtBegin # {}
  /\ callerHolds \ Mapped # {}
  /\ (callerHolds \ Mapped) \cap destroyed = {}

\* C27: try_emplace of either class returns inserted = true and a new
\* instance, different from all created before, exactly when the thread's
\* map has none, and otherwise the instance the map has; the instance stays
\* the thread's own until it terminates or calls erase, which empty its map;
\* erase with no instance changes nothing; no two threads share one.
C27_TryEmplace ==
  /\ [](/\ \A t \in Threads :
             lastTry[t].kind = "try_emplace" =>
               /\ map_ptr[t] = lastTry[t].instance
               /\ map_ptr[t] \in Range(per_thread_) \ destroyed
        /\ \A t1, t2 \in Threads :
             t1 # t2 /\ map_ptr[t1] # NoInstance
               => map_ptr[t1] # map_ptr[t2])
  /\ [][\A t \in Threads :
          /\ (lastTry'[t] # lastTry[t] /\ lastTry'[t].kind = "try_emplace")
             => /\ lastTry'[t].inserted <=> (map_ptr[t] = NoInstance)
                /\ lastTry'[t].inserted
                     => lastTry'[t].instance \notin Created
                /\ ~lastTry'[t].inserted
                     => lastTry'[t].instance = map_ptr[t]
          /\ (lastTry'[t] # lastTry[t] /\ lastTry'[t].kind # "try_emplace")
             => /\ map_ptr'[t] = NoInstance
                /\ map_ptr[t] = NoInstance
                     => <<per_thread_, callerHolds, destroyed>>'
                          = <<per_thread_, callerHolds, destroyed>>]_vars

\* A thread of a ThreadLocalWeak got instance 1, erased it or terminated,
\* got instance 2 and was given it again; another thread has instance 3.
C27_Witness ==
  /\ tl_kind = "weak"
  /\ 1 \in destroyed
  /\ lastTry["t1"] = [kind |-> "try_emplace", instance |-> 2,
                      inserted |-> FALSE]
  /\ map_ptr["t2"] = 3

\* ------------------------------------------------------------------------
\* Properties of ReverseRcu (SpecReverseRcu).

\* The values written so far
Written == 1 .. rr_written

\* How many times the cells of the live Locals, value_ and the results of
\* Collect hold the k-th value altogether.
Copies(k) ==
  LET InCells(l) == rlocals[l].local_rcu_.values_[0][k]
                      + rlocals[l].local_rcu_.values_[1][k]
                      + rlocals[l].local_rcu_.values_[2][k]
  IN InCells("l1") + InCells("l2") + rr_value_[k] + collectedSum[k]

\* No value is held twice, and the values written through a Local that is
\* alive are held once: in one of its cells, in value_, or in the result
\* of a Collect.
ValuesOfLiveKept ==
  \A k \in Written :
    /\ Copies(k) <= 1
    /\ rlocals[writtenBy[k]].state = "live" => Copies(k) = 1

\* C30: no value written through a Snapshot is in the results of Collect
\* twice, and once a Collect that was called after the destruction of a
\* Local has returned, every value written through that Local is in the
\* results of Collect exactly once.
C30_EachValueOnce ==
  \A k \in Written :
    /\ collectedSum[k] <= 1
    /\ (writtenBy[k] \in settled /\ rcollect.pc = "idle")
         => collectedSum[k] = 1

====
